---- MODULE Spec2Model ----
(***************************************************************************)
(* FileRenamerPro: the batch rename engine (RenameService.rename_files)    *)
(* and the undo/redo ledger (UndoManager) of src/file_renamer/src/         *)
(* services.py, with get_unique_path of src/file_renamer/src/utils.py,     *)
(* over a filesystem of files (path -> content).                           *)
(***************************************************************************)
EXTENDS Integers, Sequences, FiniteSets, TLC

VARIABLES
    fs,          \* the filesystem: a function from the existing paths to file contents
    undo_stack,  \* UndoManager._undo_stack, most recent last
    redo_stack,  \* UndoManager._redo_stack, most recent last
    created,     \* number of RenameSession objects created so far
    call,        \* the last call made on the service or the ledger, with its arguments
    before,      \* the filesystem and the two stacks when that call was made, and
                 \* whether the call before it was a rename_files that recorded its session
    ret,         \* what that call returned
    history      \* every session handed to record_session, in order of creation: the
                 \* session, the file each successful record moved, and whether the
                 \* trimming of record_session has dropped it from the undo stack

\* the threads of a run in which the batch is started with rename_files_async
VARIABLES
    lock,          \* UndoManager._lock: "free" or the thread that holds it
    wpc,           \* where the worker thread of rename_files_async is
    w,             \* its arguments and locals
    upc,           \* where the caller thread is inside undo, redo or clear_history
    u,             \* its locals, and the number of calls it has made
    progress_log,  \* the argument tuples on_progress has been invoked with
    completions,   \* the sessions on_complete has been invoked with
    observed       \* the last can_undo() / can_redo() of a third thread: the
                   \* predicate, what it returned and who held the lock

tvars == <<lock, wpc, w, upc, u, progress_log, completions, observed>>

\* the clock of the process and the ids rename_files has given to its sessions
VARIABLES
    now,           \* datetime.now(), in ticks of a fraction of a second
    ids            \* session.id of the session each rename_files call created, in
                   \* the order of the calls

cvars == <<now, ids>>

\* a call of RevisionDetector(revision_list).find_next_revision(...)
VARIABLES
    rev_call,      \* the constructor's and the call's arguments, and the folder
    rev_ret        \* what the call returned

rvars == <<rev_call, rev_ret>>

\* a call of one of the functions that make names: sanitize_filename,
\* JobFolderParser.parse, RenameService.generate_filename
VARIABLES
    util_call,     \* the function and its arguments
    util_ret       \* what the call returned

uvars == <<util_call, util_ret>>

evars == <<cvars, rvars, uvars>>

vars == <<fs, undo_stack, redo_stack, created, call, before, ret, history, tvars, evars>>

----------------------------------------------------------------------------
(* Bounds of the model *)

\* UndoManager(max_history): the constructor argument (default 50), kept small
max_history == 2
\* rename_files calls in one run
MaxSessions == 3
\* files in one batch
MaxFiles == 2

\* get_unique_path gives up after this many probes
MaxAttempts == 9999

----------------------------------------------------------------------------
(* Paths and the filesystem *)

\* a path is directory / stem.ext; the stem is the sequence of its
\* '_'-separated tokens, so that <<"a", 1>> is the stem "a_1"
MkPath(dir, stem, ext) == [dir |-> dir, stem |-> stem, ext |-> ext]

\* os.path.join(dest_folder, new_name)
Join(dest_folder, new_name) == MkPath(dest_folder, new_name.stem, new_name.ext)

SrcX == MkPath("S", <<"x">>, "psd")
SrcY == MkPath("S", <<"y">>, "psd")
DstA == MkPath("D", <<"a">>, "psd")
DstA1 == MkPath("D", <<"a", 1>>, "psd")
DstA2 == MkPath("D", <<"a", 2>>, "psd")

\* the file names a caller asks for
NameA == [stem |-> <<"a">>, ext |-> "psd"]
NameB == [stem |-> <<"b">>, ext |-> "psd"]
\* the files a caller passes: two loose files, both to be named a.psd, and a
\* file already in the job folder, to be named b.psd or to keep its name
FileInfos == { [path |-> SrcX, new_name |-> NameA], [path |-> SrcY, new_name |-> NameA],
               [path |-> DstA, new_name |-> NameB], [path |-> DstA, new_name |-> NameA] }
DestFolders == { "D" }
DuplicateModes == { "skip", "increment", "overwrite" }

\* At most one path per call is locked (PermissionError) or failing (any other OSError)
NoFault == [kind |-> "none", path |-> SrcX]
Faults == { NoFault, [kind |-> "perm", path |-> SrcX], [kind |-> "os", path |-> DstA] }

\* os.path.exists / Path.exists
Exists(f, p) == p \in DOMAIN f

Raises(fault, p) == fault.kind # "none" /\ fault.path = p

\* os.remove(p) on an existing file
Remove(f, p) == [q \in DOMAIN f \ {p} |-> f[q]]

\* shutil.move(src, dst) of an existing file: the destination is replaced
Move(f, src, dst) ==
    [q \in (DOMAIN f \ {src}) \cup {dst} |-> IF q = dst THEN f[src] ELSE f[q]]

\* The exception a move of src raises, "" when it succeeds
MoveError(f, src, fault) ==
    IF ~Exists(f, src) THEN "FileNotFoundError"
    ELSE IF Raises(fault, src) THEN (IF fault.kind = "perm" THEN "PermissionError" ELSE "OSError")
    ELSE ""

----------------------------------------------------------------------------
(* utils.get_unique_path *)

Candidate(base_path, n) == MkPath(base_path.dir, Append(base_path.stem, n), base_path.ext)

RECURSIVE FirstFree(_, _, _, _)
\* the smallest n in lo..hi whose candidate does not exist, 0 when all exist;
\* the loop's n = lo, lo + 1, ... searched by halves, the left half first
FirstFree(f, base_path, lo, hi) ==
    IF lo > hi THEN 0
    ELSE IF lo = hi THEN (IF Exists(f, Candidate(base_path, lo)) THEN 0 ELSE lo)
    ELSE LET mid == (lo + hi) \div 2
             left == FirstFree(f, base_path, lo, mid)
         IN IF left # 0 THEN left ELSE FirstFree(f, base_path, mid + 1, hi)

\* a loop that gives up one candidate early
ProbeGivesUpEarly(f, base_path, n) ==
    LET free == FirstFree(f, base_path, n, MaxAttempts - 1)
    IN IF free = 0 THEN [ok |-> FALSE, path |-> base_path]
       ELSE [ok |-> TRUE, path |-> Candidate(base_path, free)]

\* the while loop: returns [ok, path]; ok = FALSE is the ValueError after the
\* candidates n .. MaxAttempts have all been found to exist
Probe(f, base_path, n) ==
    LET free == FirstFree(f, base_path, n, MaxAttempts)
    IN IF free = 0 THEN [ok |-> FALSE, path |-> base_path]
       ELSE [ok |-> TRUE, path |-> Candidate(base_path, free)]

\* a get_unique_path that starts probing at _2
GetUniquePathFromTwo(f, base_path) ==
    IF ~Exists(f, base_path) THEN [ok |-> TRUE, path |-> base_path]
    ELSE Probe(f, base_path, 2)

GetUniquePath(f, base_path) ==
    IF ~Exists(f, base_path) THEN [ok |-> TRUE, path |-> base_path]
    ELSE Probe(f, base_path, 1)

----------------------------------------------------------------------------
(* RenameRecord, RenameSession *)

RenameRecord(original_path, new_path, success, error) ==
    [original_path |-> original_path, new_path |-> new_path, operation |-> "move",
     success |-> success, error |-> error]

RenameSession(obj, records) == [obj |-> obj, records |-> records]

RECURSIVE CountSuccess(_)
CountSuccess(records) ==
    IF records = <<>> THEN 0
    ELSE (IF Head(records).success THEN 1 ELSE 0) + CountSuccess(Tail(records))

success_count(session) == CountSuccess(session.records)
error_count(session) == Len(session.records) - CountSuccess(session.records)

----------------------------------------------------------------------------
(* UndoManager *)

\* a record_session that keeps the redo stack
RecordSessionKeepsRedo(us, rs, session) ==
    LET pushed == Append(us, session)
    IN [undo_stack |-> IF Len(pushed) > max_history
                       THEN SubSeq(pushed, Len(pushed) - max_history + 1, Len(pushed))
                       ELSE pushed,
        redo_stack |-> rs]

\* a record_session that trims the newest entries (pop() for pop(0))
RecordSessionPopsNewest(us, rs, session) ==
    LET pushed == Append(us, session)
    IN [undo_stack |-> IF Len(pushed) > max_history THEN SubSeq(pushed, 1, max_history)
                       ELSE pushed,
        redo_stack |-> <<>>]

\* record_session: returns the two stacks after the call
RecordSession(us, rs, session) ==
    LET pushed == Append(us, session)
        \* while len(self._undo_stack) > self.max_history: self._undo_stack.pop(0)
        trimmed == IF Len(pushed) > max_history
                   THEN SubSeq(pushed, Len(pushed) - max_history + 1, Len(pushed))
                   ELSE pushed
    IN [undo_stack |-> trimmed, redo_stack |-> <<>>]

\* the element pop() takes
Top(stack) == stack[Len(stack)]
\* the records undo and redo act on
Successes(session) == { i \in DOMAIN session.records : session.records[i].success }

CanUndo == Len(undo_stack) > 0
CanRedo == Len(redo_stack) > 0

\* an undo that moves back the file at a failed record's new_path too
UndoOneReplaysFailures(f, record, fault) ==
    IF ~Exists(f, record.new_path)
    THEN [fs |-> f, restored |-> 0, errors |-> << <<"File not found", record.new_path>> >>]
    ELSE IF MoveError(f, record.new_path, fault) # ""
    THEN [fs |-> f, restored |-> 0,
          errors |-> << <<MoveError(f, record.new_path, fault), record.new_path>> >>]
    ELSE [fs |-> Move(f, record.new_path, record.original_path), restored |-> 1, errors |-> <<>>]

\* an undo that moves in the wrong direction: shutil.move(original_path, new_path)
UndoOneSwapped(f, record, fault) ==
    IF ~record.success THEN [fs |-> f, restored |-> 0, errors |-> <<>>]
    ELSE IF ~Exists(f, record.new_path)
    THEN [fs |-> f, restored |-> 0, errors |-> << <<"File not found", record.new_path>> >>]
    ELSE IF MoveError(f, record.original_path, fault) # ""
    THEN [fs |-> f, restored |-> 0,
          errors |-> << <<MoveError(f, record.original_path, fault), record.new_path>> >>]
    ELSE [fs |-> Move(f, record.original_path, record.new_path), restored |-> 1, errors |-> <<>>]

\* the body of undo's loop for one record: [fs, restored, errors]
UndoOne(f, record, fault) ==
    IF ~record.success THEN [fs |-> f, restored |-> 0, errors |-> <<>>]
    ELSE IF ~Exists(f, record.new_path)
    THEN [fs |-> f, restored |-> 0, errors |-> << <<"File not found", record.new_path>> >>]
    ELSE IF record.operation = "move"
    THEN IF MoveError(f, record.new_path, fault) # ""
         THEN [fs |-> f, restored |-> 0,
               errors |-> << <<MoveError(f, record.new_path, fault), record.new_path>> >>]
         ELSE [fs |-> Move(f, record.new_path, record.original_path),
               restored |-> 1, errors |-> <<>>]
    ELSE IF record.operation = "copy"
    THEN IF Raises(fault, record.new_path)
         THEN [fs |-> f, restored |-> 0, errors |-> << <<"OSError", record.new_path>> >>]
         ELSE [fs |-> Remove(f, record.new_path), restored |-> 1, errors |-> <<>>]
    ELSE [fs |-> f, restored |-> 1, errors |-> <<>>]

RECURSIVE UndoLoopStopsAtError(_, _, _, _)
\* an undo loop that stops at the first record it cannot restore
UndoLoopStopsAtError(f, records, i, fault) ==
    IF i = 0 THEN [fs |-> f, restored |-> 0, errors |-> <<>>]
    ELSE LET one == UndoOne(f, records[i], fault)
             rest == UndoLoopStopsAtError(one.fs, records, i - 1, fault)
         IN IF one.errors # <<>> THEN one
            ELSE [fs |-> rest.fs, restored |-> one.restored + rest.restored,
                  errors |-> one.errors \o rest.errors]

RECURSIVE UndoLoopForward(_, _, _, _)
\* an undo loop that goes through the records in processing order
UndoLoopForward(f, records, i, fault) ==
    IF i = 0 THEN [fs |-> f, restored |-> 0, errors |-> <<>>]
    ELSE LET one == UndoOne(f, records[Len(records) - i + 1], fault)
             rest == UndoLoopForward(one.fs, records, i - 1, fault)
         IN [fs |-> rest.fs, restored |-> one.restored + rest.restored,
             errors |-> one.errors \o rest.errors]

RECURSIVE UndoLoop(_, _, _, _)
\* for record in reversed(session.records): records[i], records[i-1], ..., records[1]
UndoLoop(f, records, i, fault) ==
    IF i = 0 THEN [fs |-> f, restored |-> 0, errors |-> <<>>]
    ELSE LET one == UndoOne(f, records[i], fault)
             rest == UndoLoop(one.fs, records, i - 1, fault)
         IN [fs |-> rest.fs, restored |-> one.restored + rest.restored,
             errors |-> one.errors \o rest.errors]

\* a redo that replays the failed records too
RedoOneReplaysFailures(f, record, fault) ==
    IF ~Exists(f, record.original_path)
    THEN [fs |-> f, renamed |-> 0, errors |-> << <<"File not found", record.original_path>> >>]
    ELSE IF MoveError(f, record.original_path, fault) # ""
    THEN [fs |-> f, renamed |-> 0,
          errors |-> << <<MoveError(f, record.original_path, fault), record.original_path>> >>]
    ELSE [fs |-> Move(f, record.original_path, record.new_path), renamed |-> 1, errors |-> <<>>]

\* the body of redo's loop for one record: [fs, renamed, errors]
RedoOne(f, record, fault) ==
    IF ~record.success THEN [fs |-> f, renamed |-> 0, errors |-> <<>>]
    ELSE IF ~Exists(f, record.original_path)
    THEN [fs |-> f, renamed |-> 0, errors |-> << <<"File not found", record.original_path>> >>]
    ELSE IF MoveError(f, record.original_path, fault) # ""
    THEN [fs |-> f, renamed |-> 0,
          errors |-> << <<MoveError(f, record.original_path, fault), record.original_path>> >>]
    ELSE IF record.operation = "move"
    THEN [fs |-> Move(f, record.original_path, record.new_path), renamed |-> 1, errors |-> <<>>]
    ELSE IF record.operation = "copy"
    THEN [fs |-> [q \in DOMAIN f \cup {record.new_path} |->
                     IF q = record.new_path THEN f[record.original_path] ELSE f[q]],
          renamed |-> 1, errors |-> <<>>]
    ELSE [fs |-> f, renamed |-> 1, errors |-> <<>>]

RECURSIVE RedoLoopReversed(_, _, _, _)
\* a redo loop that goes through the records last to first
RedoLoopReversed(f, records, i, fault) ==
    IF i > Len(records) THEN [fs |-> f, renamed |-> 0, errors |-> <<>>]
    ELSE LET one == RedoOne(f, records[Len(records) - i + 1], fault)
             rest == RedoLoopReversed(one.fs, records, i + 1, fault)
         IN [fs |-> rest.fs, renamed |-> one.renamed + rest.renamed,
             errors |-> one.errors \o rest.errors]

RECURSIVE RedoLoop(_, _, _, _)
\* for record in session.records: records[i], records[i+1], ..., records[Len]
RedoLoop(f, records, i, fault) ==
    IF i > Len(records) THEN [fs |-> f, renamed |-> 0, errors |-> <<>>]
    ELSE LET one == RedoOne(f, records[i], fault)
             rest == RedoLoop(one.fs, records, i + 1, fault)
         IN [fs |-> rest.fs, renamed |-> one.renamed + rest.renamed,
             errors |-> one.errors \o rest.errors]

\* the tuple undo and redo return: (success, message, count)
UndoResult(restored, errors) ==
    IF errors # <<>>
    THEN <<FALSE, <<"Restored", restored, "files with", Len(errors), "errors">>, restored>>
    ELSE <<TRUE, <<"Restored", restored, "files">>, restored>>

RedoResult(renamed, errors) ==
    IF errors # <<>>
    THEN <<FALSE, <<"Renamed", renamed, "files with", Len(errors), "errors">>, renamed>>
    ELSE <<TRUE, <<"Renamed", renamed, "files">>, renamed>>

----------------------------------------------------------------------------
(* RenameService.rename_files *)

ErrorText(exception) ==
    IF exception = "PermissionError" THEN "Permission denied"
    ELSE IF exception = "FileNotFoundError" THEN "Source file not found"
    ELSE exception

\* a loop body that does not look at the skip mode: the move replaces the target
RenameOneIgnoresSkip(f, file_info, dest_folder, duplicate_mode, fault) ==
    LET original_path == file_info.path
        new_path == Join(dest_folder, file_info.new_name)
        exception == MoveError(f, original_path, fault)
    IN  IF exception = ""
        THEN [fs |-> Move(f, original_path, new_path),
              record |-> RenameRecord(original_path, new_path, TRUE, "")]
        ELSE [fs |-> f, record |-> RenameRecord(original_path, new_path, FALSE, ErrorText(exception))]

\* the body of the for loop for one file: [fs, record]
RenameOne(f, file_info, dest_folder, duplicate_mode, fault) ==
    LET original_path == file_info.path
        new_path == Join(dest_folder, file_info.new_name)
        dup == Exists(f, new_path)
        unique == GetUniquePath(f, new_path)
    IN  IF dup /\ duplicate_mode = "skip"
        THEN [fs |-> f, record |-> RenameRecord(original_path, new_path, FALSE, "File already exists")]
        ELSE IF dup /\ duplicate_mode = "increment" /\ ~unique.ok
        THEN [fs |-> f, record |-> RenameRecord(original_path, new_path, FALSE, "ValueError")]
        ELSE IF dup /\ duplicate_mode = "overwrite" /\ Raises(fault, new_path)
        THEN [fs |-> f,
              record |-> RenameRecord(original_path, new_path, FALSE,
                            ErrorText(IF fault.kind = "perm" THEN "PermissionError" ELSE "OSError"))]
        ELSE LET target == IF dup /\ duplicate_mode = "increment" THEN unique.path ELSE new_path
                 f1 == IF dup /\ duplicate_mode = "overwrite" THEN Remove(f, new_path) ELSE f
                 exception == MoveError(f1, original_path, fault)
             IN  IF exception = ""
                 THEN [fs |-> Move(f1, original_path, target),
                       record |-> RenameRecord(original_path, target, TRUE, "")]
                 ELSE [fs |-> f1,
                       record |-> RenameRecord(original_path, target, FALSE, ErrorText(exception))]

RECURSIVE RenameLoopStopsAtFailure(_, _, _, _, _, _)
\* a loop that gives up the batch at the first file that fails
RenameLoopStopsAtFailure(f, files, i, dest_folder, duplicate_mode, fault) ==
    IF i > Len(files) THEN [fs |-> f, records |-> <<>>]
    ELSE LET one == RenameOne(f, files[i], dest_folder, duplicate_mode, fault)
             rest == RenameLoopStopsAtFailure(one.fs, files, i + 1, dest_folder, duplicate_mode, fault)
         IN IF ~one.record.success THEN [fs |-> one.fs, records |-> <<one.record>>]
            ELSE [fs |-> rest.fs, records |-> <<one.record>> \o rest.records]

RECURSIVE RenameLoop(_, _, _, _, _, _)
\* for i, file_info in enumerate(files): [fs, records]
RenameLoop(f, files, i, dest_folder, duplicate_mode, fault) ==
    IF i > Len(files) THEN [fs |-> f, records |-> <<>>]
    ELSE LET one == RenameOne(f, files[i], dest_folder, duplicate_mode, fault)
             rest == RenameLoop(one.fs, files, i + 1, dest_folder, duplicate_mode, fault)
         IN [fs |-> rest.fs, records |-> <<one.record>> \o rest.records]

Injective(q) == \A i, j \in DOMAIN q : q[i] = q[j] => i = j
\* the batches a caller passes: up to MaxFiles different files
Batches == UNION { { q \in [1..n -> FileInfos] : Injective(q) } : n \in 1..MaxFiles }

\* a rename_files that hands every session to record_session
RenameFilesCallAlwaysRecords(f, us, rs, obj, files, dest_folder, duplicate_mode, fault) ==
    LET done == RenameLoop(f, files, 1, dest_folder, duplicate_mode, fault)
        session == RenameSession(obj, done.records)
        ledger == RecordSession(us, rs, session)
    IN [fs |-> done.fs, undo_stack |-> ledger.undo_stack, redo_stack |-> ledger.redo_stack,
        ret |-> session]

\* the whole of rename_files: [fs, undo_stack, redo_stack, ret]
RenameFilesCall(f, us, rs, obj, files, dest_folder, duplicate_mode, fault) ==
    LET done == RenameLoop(f, files, 1, dest_folder, duplicate_mode, fault)
        session == RenameSession(obj, done.records)
        \* if session.success_count > 0: self.undo_manager.record_session(session)
        ledger == IF success_count(session) > 0
                  THEN RecordSession(us, rs, session)
                  ELSE [undo_stack |-> us, redo_stack |-> rs]
    IN [fs |-> done.fs, undo_stack |-> ledger.undo_stack, redo_stack |-> ledger.redo_stack,
        ret |-> session]

\* an undo that pushes the session to the redo stack and leaves it in the
\* undo stack as well
UndoCallKeepsUndo(f, us, rs, fault) ==
    IF us = <<>>
    THEN [fs |-> f, undo_stack |-> us, redo_stack |-> rs, ret |-> <<FALSE, <<"Nothing to undo">>, 0>>]
    ELSE LET session == us[Len(us)]
             done == UndoLoop(f, session.records, Len(session.records), fault)
         IN [fs |-> done.fs, undo_stack |-> us,
             redo_stack |-> Append(rs, session), ret |-> UndoResult(done.restored, done.errors)]

\* an undo that pops the newest session but goes through the records of the oldest
UndoCallReplaysOldest(f, us, rs, fault) ==
    IF us = <<>>
    THEN [fs |-> f, undo_stack |-> us, redo_stack |-> rs, ret |-> <<FALSE, <<"Nothing to undo">>, 0>>]
    ELSE LET done == UndoLoop(f, us[1].records, Len(us[1].records), fault)
         IN [fs |-> done.fs, undo_stack |-> SubSeq(us, 1, Len(us) - 1),
             redo_stack |-> Append(rs, us[Len(us)]), ret |-> UndoResult(done.restored, done.errors)]

\* the whole of undo: [fs, undo_stack, redo_stack, ret]
UndoCall(f, us, rs, fault) ==
    IF us = <<>>
    THEN [fs |-> f, undo_stack |-> us, redo_stack |-> rs, ret |-> <<FALSE, <<"Nothing to undo">>, 0>>]
    ELSE LET session == us[Len(us)]
             done == UndoLoop(f, session.records, Len(session.records), fault)
         IN [fs |-> done.fs, undo_stack |-> SubSeq(us, 1, Len(us) - 1),
             redo_stack |-> Append(rs, session), ret |-> UndoResult(done.restored, done.errors)]

\* a redo that answers an empty redo stack with the words of undo
RedoCallAnswersAsUndo(f, us, rs, fault) ==
    IF rs = <<>>
    THEN [fs |-> f, undo_stack |-> us, redo_stack |-> rs, ret |-> <<FALSE, <<"Nothing to undo">>, 0>>]
    ELSE LET session == rs[Len(rs)]
             done == RedoLoop(f, session.records, 1, fault)
         IN [fs |-> done.fs, redo_stack |-> SubSeq(rs, 1, Len(rs) - 1),
             undo_stack |-> Append(us, session), ret |-> RedoResult(done.renamed, done.errors)]

\* a redo that reads the top of the redo stack without popping it
RedoCallKeepsRedo(f, us, rs, fault) ==
    IF rs = <<>>
    THEN [fs |-> f, undo_stack |-> us, redo_stack |-> rs, ret |-> <<FALSE, <<"Nothing to redo">>, 0>>]
    ELSE LET session == rs[Len(rs)]
             done == RedoLoop(f, session.records, 1, fault)
         IN [fs |-> done.fs, redo_stack |-> rs,
             undo_stack |-> Append(us, session), ret |-> RedoResult(done.renamed, done.errors)]

\* the whole of redo: [fs, undo_stack, redo_stack, ret]
RedoCall(f, us, rs, fault) ==
    IF rs = <<>>
    THEN [fs |-> f, undo_stack |-> us, redo_stack |-> rs, ret |-> <<FALSE, <<"Nothing to redo">>, 0>>]
    ELSE LET session == rs[Len(rs)]
             done == RedoLoop(f, session.records, 1, fault)
         IN [fs |-> done.fs, redo_stack |-> SubSeq(rs, 1, Len(rs) - 1),
             undo_stack |-> Append(us, session), ret |-> RedoResult(done.renamed, done.errors)]

\* the whole of clear_history: [fs, undo_stack, redo_stack, ret]
ClearHistoryCall(f, us, rs) ==
    [fs |-> f, undo_stack |-> <<>>, redo_stack |-> <<>>, ret |-> <<>>]

----------------------------------------------------------------------------
(* The state machine *)

\* no thread has been started and no call is in progress
NoLocals == [i |-> 0]
\* no rename_files call has read the clock
ClockIdle == now = 0 /\ ids = <<>>
\* no RevisionDetector has been made
RevisionIdle == rev_call = [pc |-> "idle"] /\ rev_ret = <<>>
\* none of the functions that make names has been called
UtilIdle == util_call = [pc |-> "idle"] /\ util_ret = <<>>

ThreadsIdle ==
    /\ lock = "free"
    /\ wpc = "idle" /\ w = NoLocals
    /\ upc = "idle" /\ u = [calls |-> 0]
    /\ progress_log = <<>>
    /\ completions = <<>>
    /\ observed = [pred |-> "none"]

\* the files that may exist when the program starts, each with its own content
InitialFiles == (SrcX :> 1) @@ (SrcY :> 2) @@ (DstA :> 3) @@ (DstA1 :> 4) @@ (DstA2 :> 5)
Restrict(f, S) == [q \in S |-> f[q]]

Init ==
    /\ fs \in { Restrict(InitialFiles, S) : S \in SUBSET DOMAIN InitialFiles }
    /\ undo_stack = <<>>
    /\ redo_stack = <<>>
    /\ created = 0
    /\ call = [op |-> "init"]
    /\ before = [fs |-> fs, undo_stack |-> <<>>, redo_stack |-> <<>>, recorded |-> FALSE]
    /\ ret = <<>>
    /\ history = <<>>
    /\ ThreadsIdle
    /\ ClockIdle
    /\ RevisionIdle
    /\ UtilIdle

Snapshot ==
    [fs |-> fs, undo_stack |-> undo_stack, redo_stack |-> redo_stack,
     recorded |-> (call.op = "rename_files" /\ success_count(ret) > 0)]

\* the session object obj is in the stack
InStack(stack, obj) == \E k \in DOMAIN stack : stack[k].obj = obj

\* the content of the file each record of a batch moved to its new_path (0 for a
\* record that moved nothing)
Moved(f, files, dest_folder, duplicate_mode, fault) ==
    [i \in DOMAIN files |->
        LET done == RenameLoop(f, SubSeq(files, 1, i), 1, dest_folder, duplicate_mode, fault)
        IN IF done.records[i].success THEN done.fs[done.records[i].new_path] ELSE 0]

\* session = rename_service.rename_files(files, dest_folder, job_number, duplicate_mode=...)
RenameFiles(files, dest_folder, duplicate_mode, fault) ==
    \E r \in { RenameFilesCall(fs, undo_stack, redo_stack, created + 1,
                                files, dest_folder, duplicate_mode, fault) } :
       /\ fs' = r.fs
       /\ undo_stack' = r.undo_stack
       /\ redo_stack' = r.redo_stack
       /\ before' = Snapshot
       /\ created' = IF success_count(r.ret) > 0 THEN created + 1 ELSE created
       /\ call' = [op |-> "rename_files", files |-> files, dest_folder |-> dest_folder,
                   duplicate_mode |-> duplicate_mode, fault |-> fault]
       /\ ret' = r.ret
       /\ history' = IF success_count(r.ret) > 0
                     THEN Append([o \in DOMAIN history |->
                                     [history[o] EXCEPT !.evicted =
                                         @ \/ (InStack(undo_stack, o) /\ ~InStack(r.undo_stack, o))]],
                                 [session |-> r.ret,
                                  moved |-> Moved(fs, files, dest_folder, duplicate_mode, fault),
                                  evicted |-> ~InStack(r.undo_stack, created + 1)])
                     ELSE history
       /\ UNCHANGED tvars

\* undo_manager.undo()
Undo(fault) ==
    \E r \in { UndoCall(fs, undo_stack, redo_stack, fault) } :
       /\ fs' = r.fs
       /\ undo_stack' = r.undo_stack
       /\ redo_stack' = r.redo_stack
       /\ before' = Snapshot
       /\ call' = [op |-> "undo", fault |-> fault]
       /\ ret' = r.ret
       /\ UNCHANGED <<created, history, tvars, evars>>

\* undo_manager.redo()
Redo(fault) ==
    \E r \in { RedoCall(fs, undo_stack, redo_stack, fault) } :
       /\ fs' = r.fs
       /\ undo_stack' = r.undo_stack
       /\ redo_stack' = r.redo_stack
       /\ before' = Snapshot
       /\ call' = [op |-> "redo", fault |-> fault]
       /\ ret' = r.ret
       /\ UNCHANGED <<created, history, tvars, evars>>

\* one batch on any filesystem, then any undos and redos
DoRenameFiles ==
    /\ call.op = "init"
    /\ \E files \in Batches, dest_folder \in DestFolders, duplicate_mode \in DuplicateModes,
          fault \in Faults : RenameFiles(files, dest_folder, duplicate_mode, fault)
    /\ UNCHANGED evars
DoUndo == \E fault \in Faults : Undo(fault)
DoRedo == \E fault \in Faults : Redo(fault)

Next == DoRenameFiles \/ DoUndo \/ DoRedo

Spec == Init /\ [][Next]_vars

\* a run of single-file batches, each taking a file to another name, long enough
\* to fill the history; the moves of a batch raise nothing here, those of undo
\* and redo may
LedgerBatches == { q \in Batches : Len(q) = 1 /\ q[1].path # Join("D", q[1].new_name) }
DoRecordBatch ==
    /\ created < MaxSessions
    /\ \E files \in LedgerBatches, dest_folder \in DestFolders, duplicate_mode \in DuplicateModes :
          RenameFiles(files, dest_folder, duplicate_mode, NoFault)
    /\ UNCHANGED evars

NextLedger == DoRecordBatch \/ DoUndo \/ DoRedo

InitLedger ==
    /\ fs = Restrict(InitialFiles, {SrcX, SrcY, DstA})
    /\ undo_stack = <<>>
    /\ redo_stack = <<>>
    /\ created = 0
    /\ call = [op |-> "init"]
    /\ before = [fs |-> fs, undo_stack |-> <<>>, redo_stack |-> <<>>, recorded |-> FALSE]
    /\ ret = <<>>
    /\ history = <<>>
    /\ ThreadsIdle
    /\ ClockIdle
    /\ RevisionIdle
    /\ UtilIdle

SpecLedger == InitLedger /\ [][NextLedger]_vars

\* one batch on any filesystem, then any undos and redos, no file operation raising
DoRenameQuiet ==
    /\ call.op = "init"
    /\ \E files \in Batches, dest_folder \in DestFolders, duplicate_mode \in DuplicateModes :
          RenameFiles(files, dest_folder, duplicate_mode, NoFault)
    /\ UNCHANGED evars
DoUndoQuiet == Undo(NoFault)
DoRedoQuiet == Redo(NoFault)

NextQuiet == DoRenameQuiet \/ DoUndoQuiet \/ DoRedoQuiet

SpecQuiet == Init /\ [][NextQuiet]_vars

\* the files of a batch in which a skipped file and a moved file share no
\* path: the files above and a second loose file to be named b.psd
MixedFileInfos == FileInfos \cup { [path |-> SrcY, new_name |-> NameB] }
MixedBatches == UNION { { q \in [1..n -> MixedFileInfos] : Injective(q) } : n \in 1..MaxFiles }
DoRenameMixed ==
    /\ call.op = "init"
    /\ \E files \in MixedBatches, dest_folder \in DestFolders, duplicate_mode \in DuplicateModes,
          fault \in Faults : RenameFiles(files, dest_folder, duplicate_mode, fault)
    /\ UNCHANGED evars

NextMixed == DoRenameMixed \/ DoUndo \/ DoRedo

\* one batch of these files on any filesystem, then any undos and redos
SpecMixed == Init /\ [][NextMixed]_vars

\* the files of a chained batch: the file in the job folder renamed to b.psd
\* and the two loose files renamed to a.psd, any of them, in any order
ChainFileInfos == { [path |-> DstA, new_name |-> NameB], [path |-> SrcX, new_name |-> NameA],
                    [path |-> SrcY, new_name |-> NameA] }
ChainedBatches ==
    UNION { { q \in [1..n -> ChainFileInfos] : Injective(q) } : n \in 1..Cardinality(ChainFileInfos) }
DoRenameChained ==
    /\ call.op = "init"
    /\ \E files \in ChainedBatches, dest_folder \in DestFolders, duplicate_mode \in DuplicateModes,
          fault \in Faults : RenameFiles(files, dest_folder, duplicate_mode, fault)
    /\ UNCHANGED evars

NextChained == DoRenameChained \/ DoUndo \/ DoRedo

\* one batch of these files on any filesystem, then any undos and redos
SpecChained == Init /\ [][NextChained]_vars

\* a destination folder whose directory cannot be created, and why:
\* "missing" when mkdir is refused (no permission, read-only parent) and the
\* directory is not there, "not_a_directory" when a file lies on its path
UnreachableFolder == "U"
Causes == { "missing", "not_a_directory" }

\* ensure_directory(Path(dest_folder)): the exception of mkdir is caught and
\* logged, the function returns False
EnsureDirectory(dest_folder) == dest_folder # UnreachableFolder

\* the exception shutil.move raises for a target inside that folder
MoveIntoError(f, src, cause) ==
    IF ~Exists(f, src) \/ cause = "missing" THEN "FileNotFoundError" ELSE "NotADirectoryError"

RECURSIVE RenameLoopUnreachable(_, _, _, _, _)
\* the loop of rename_files after ensure_directory has failed: its result is
\* not looked at, no target exists, every move raises
RenameLoopUnreachable(f, files, i, dest_folder, cause) ==
    IF i > Len(files) THEN [fs |-> f, records |-> <<>>]
    ELSE LET record == RenameRecord(files[i].path, Join(dest_folder, files[i].new_name), FALSE,
                                    ErrorText(MoveIntoError(f, files[i].path, cause)))
             rest == RenameLoopUnreachable(f, files, i + 1, dest_folder, cause)
         IN [fs |-> rest.fs, records |-> <<record>> \o rest.records]

\* rename_files(files, dest_folder, ...) with such a destination folder
RenameFilesUnreachable(files, duplicate_mode, cause) ==
    LET done == RenameLoopUnreachable(fs, files, 1, UnreachableFolder, cause)
        session == RenameSession(created + 1, done.records)
        recorded == success_count(session) > 0
        ledger == IF recorded THEN RecordSession(undo_stack, redo_stack, session)
                  ELSE [undo_stack |-> undo_stack, redo_stack |-> redo_stack]
    IN /\ ~EnsureDirectory(UnreachableFolder)
       /\ fs' = done.fs
       /\ undo_stack' = ledger.undo_stack
       /\ redo_stack' = ledger.redo_stack
       /\ before' = Snapshot
       /\ created' = IF recorded THEN created + 1 ELSE created
       /\ call' = [op |-> "rename_files", files |-> files, dest_folder |-> UnreachableFolder,
                   duplicate_mode |-> duplicate_mode, fault |-> NoFault, cause |-> cause]
       /\ ret' = session
       /\ UNCHANGED <<history, tvars>>

DoRenameUnreachable ==
    /\ call.op = "init"
    /\ \E files \in Batches, duplicate_mode \in DuplicateModes, cause \in Causes :
          RenameFilesUnreachable(files, duplicate_mode, cause)
    /\ UNCHANGED evars

NextUnreachable == DoRenameUnreachable \/ DoUndoQuiet \/ DoRedoQuiet

\* one batch into a folder that cannot be created, on any filesystem, then
\* undo and redo
SpecUnreachable == Init /\ [][NextUnreachable]_vars

\* a job folder in which a.psd and a_1.psd .. a_k.psd exist, each with its own
\* content
Crowd(k) ==
    [q \in {DstA} \cup { Candidate(DstA, n) : n \in 1..k } |->
        IF q = DstA THEN 3 ELSE 10 + q.stem[2]]
\* the numbers of suffixed files around the last candidate the probe tries
CrowdSizes == { MaxAttempts - 1, MaxAttempts, MaxAttempts + 1 }

\* the program starts on such a folder, with any of the loose files
InitCrowded ==
    /\ \E k \in CrowdSizes, S \in SUBSET {SrcX, SrcY} :
          fs = Crowd(k) @@ Restrict(InitialFiles, S)
    /\ undo_stack = <<>>
    /\ redo_stack = <<>>
    /\ created = 0
    /\ call = [op |-> "init"]
    /\ before = [fs |-> fs, undo_stack |-> <<>>, redo_stack |-> <<>>, recorded |-> FALSE]
    /\ ret = <<>>
    /\ history = <<>>
    /\ ThreadsIdle
    /\ ClockIdle
    /\ RevisionIdle
    /\ UtilIdle

\* the loose files, each to be named a.psd, in any order
CrowdedBatches ==
    UNION { { q \in [1..n -> { info \in FileInfos : info.path.dir = "S" }] : Injective(q) } : n \in 1..MaxFiles }

DoRenameCrowded ==
    /\ call.op = "init"
    /\ \E files \in CrowdedBatches, dest_folder \in DestFolders, duplicate_mode \in {"skip", "increment"} :
          RenameFiles(files, dest_folder, duplicate_mode, NoFault)
    /\ UNCHANGED evars

NextCrowded == DoRenameCrowded \/ DoUndoQuiet

\* one batch into the crowded folder, then undo
SpecCrowded == InitCrowded /\ [][NextCrowded]_vars

\* the duplicate modes that remove no file
KeptModes == { "skip", "increment" }
DoRecordKept ==
    /\ created < MaxSessions
    /\ \E files \in LedgerBatches, dest_folder \in DestFolders, duplicate_mode \in KeptModes :
          RenameFiles(files, dest_folder, duplicate_mode, NoFault)
    /\ UNCHANGED evars

NextKept == DoRecordKept \/ DoUndo \/ DoRedo

\* a run of single-file batches in the skip and increment modes, with any
\* undos and redos, one call at a time; a move of an undo or a redo may raise
SpecKept == InitLedger /\ [][NextKept]_vars

\* undo_manager.clear_history()
ClearHistory ==
    LET r == ClearHistoryCall(fs, undo_stack, redo_stack)
    IN /\ fs' = r.fs
       /\ undo_stack' = r.undo_stack
       /\ redo_stack' = r.redo_stack
       /\ before' = Snapshot
       /\ call' = [op |-> "clear_history"]
       /\ ret' = r.ret
       /\ UNCHANGED <<created, history, tvars, evars>>

\* the ledger runs of SpecLedger, with clear_history called at any time and no
\* file operation raising
DoClearHistory == ClearHistory

NextHistory == DoRecordBatch \/ DoUndoQuiet \/ DoRedoQuiet \/ DoClearHistory

SpecHistory == InitLedger /\ [][NextHistory]_vars

----------------------------------------------------------------------------
(* Threads: rename_files_async, the ledger's lock, unlocked predicates *)

\* calls the caller thread makes in one run
MaxCalls == 2

\* a lock that lets every thread in
LockIgnored(l) == TRUE
\* with self._lock: the thread goes on when no thread holds the lock
LockFree(l) == l = "free"

\* rename_files_async(files, dest_folder, job_number, on_progress, on_complete,
\* duplicate_mode): the worker thread is created and started; raise_at is the
\* invocation at which on_progress raises, 0 for a callback that never raises
StartAsync(files, dest_folder, duplicate_mode, raise_at) ==
    /\ wpc = "idle"
    /\ wpc' = "progress"
    /\ w' = [files |-> files, dest_folder |-> dest_folder, duplicate_mode |-> duplicate_mode,
             raise_at |-> raise_at, i |-> 1, records |-> <<>>]
    /\ created' = created + 1
    /\ UNCHANGED <<fs, undo_stack, redo_stack, call, before, ret, history, evars,
                   lock, upc, u, progress_log, completions, observed>>

\* the session the worker is filling
WorkerSession == RenameSession(created, w.records)

\* on_progress(i + 1, total, new_name): an exception of the callback leaves
\* rename_files and ends the worker thread
WorkerProgress ==
    /\ wpc = "progress"
    /\ progress_log' = Append(progress_log, <<w.i, Len(w.files), w.files[w.i].new_name>>)
    /\ wpc' = IF w.raise_at = w.i THEN "dead" ELSE "file"
    /\ UNCHANGED <<fs, undo_stack, redo_stack, created, call, before, ret, history, evars,
                   lock, w, upc, u, completions, observed>>

\* the rest of the loop body for files[i]; after the last file the session goes
\* to record_session if it has a success
WorkerFile ==
    /\ wpc = "file"
    /\ LET one == RenameOne(fs, w.files[w.i], w.dest_folder, w.duplicate_mode, NoFault)
           records == Append(w.records, one.record)
       IN /\ fs' = one.fs
          /\ w' = [w EXCEPT !.records = records, !.i = w.i + 1]
          /\ wpc' = IF w.i < Len(w.files) THEN "progress"
                    ELSE IF CountSuccess(records) > 0 THEN "record" ELSE "complete"
    /\ UNCHANGED <<undo_stack, redo_stack, created, call, before, ret, history, evars,
                   lock, upc, u, progress_log, completions, observed>>

\* record_session: with self._lock
WorkerAcquire ==
    /\ wpc = "record"
    /\ LockFree(lock)
    /\ lock' = "worker"
    /\ wpc' = "append"
    /\ UNCHANGED <<fs, undo_stack, redo_stack, created, call, before, ret, history, evars,
                   w, upc, u, progress_log, completions, observed>>

\* self._undo_stack.append(session)
WorkerAppend ==
    /\ wpc = "append"
    /\ undo_stack' = Append(undo_stack, WorkerSession)
    /\ wpc' = "clear"
    /\ UNCHANGED <<fs, redo_stack, created, call, before, ret, history, evars,
                   lock, w, upc, u, progress_log, completions, observed>>

\* self._redo_stack.clear()
WorkerClear ==
    /\ wpc = "clear"
    /\ redo_stack' = <<>>
    /\ wpc' = "trim"
    /\ UNCHANGED <<fs, undo_stack, created, call, before, ret, history, evars,
                   lock, w, upc, u, progress_log, completions, observed>>

\* while len(self._undo_stack) > self.max_history: self._undo_stack.pop(0);
\* then the lock is released and rename_files returns the session
WorkerTrim ==
    /\ wpc = "trim"
    /\ IF Len(undo_stack) > max_history
       THEN /\ undo_stack' = Tail(undo_stack)
            /\ UNCHANGED <<lock, wpc>>
       ELSE /\ lock' = "free"
            /\ wpc' = "complete"
            /\ UNCHANGED undo_stack
    /\ UNCHANGED <<fs, redo_stack, created, call, before, ret, history, evars,
                   w, upc, u, progress_log, completions, observed>>

\* if on_complete: on_complete(session)
WorkerComplete ==
    /\ wpc = "complete"
    /\ completions' = Append(completions, WorkerSession)
    /\ wpc' = "done"
    /\ UNCHANGED <<fs, undo_stack, redo_stack, created, call, before, ret, history, evars,
                   lock, w, upc, u, progress_log, observed>>

\* what the caller thread leaves unchanged
CallerFrame == UNCHANGED <<created, call, before, ret, history, evars,
                           wpc, w, progress_log, completions, observed>>

\* the caller thread calls undo(), redo() or clear_history(): with self._lock
CallerAcquire(op) ==
    /\ upc = "idle"
    /\ u.calls < MaxCalls
    /\ LockFree(lock)
    /\ lock' = "caller"
    /\ upc' = op
    /\ u' = [calls |-> u.calls + 1]
    /\ UNCHANGED <<fs, undo_stack, redo_stack>>
    /\ CallerFrame

\* undo: if not self._undo_stack: return ...; session = self._undo_stack.pop()
UndoPop ==
    /\ upc = "undo"
    /\ IF undo_stack = <<>>
       THEN /\ lock' = "free" /\ upc' = "idle"
            /\ UNCHANGED <<undo_stack, u>>
       ELSE /\ undo_stack' = SubSeq(undo_stack, 1, Len(undo_stack) - 1)
            /\ u' = [calls |-> u.calls, session |-> Top(undo_stack),
                     i |-> Len(Top(undo_stack).records), count |-> 0, errors |-> <<>>]
            /\ upc' = "undo_loop"
            /\ UNCHANGED lock
    /\ UNCHANGED <<fs, redo_stack>>
    /\ CallerFrame

\* undo: one record of the loop over reversed(session.records)
UndoStep ==
    /\ upc = "undo_loop" /\ u.i > 0
    /\ LET one == UndoOne(fs, u.session.records[u.i], NoFault)
       IN /\ fs' = one.fs
          /\ u' = [u EXCEPT !.i = u.i - 1, !.count = u.count + one.restored,
                            !.errors = u.errors \o one.errors]
    /\ UNCHANGED <<undo_stack, redo_stack, lock, upc>>
    /\ CallerFrame

\* undo: self._redo_stack.append(session); the lock is released on return
UndoPush ==
    /\ upc = "undo_loop" /\ u.i = 0
    /\ redo_stack' = Append(redo_stack, u.session)
    /\ lock' = "free" /\ upc' = "idle"
    /\ u' = [calls |-> u.calls]
    /\ UNCHANGED <<fs, undo_stack>>
    /\ CallerFrame

\* redo: if not self._redo_stack: return ...; session = self._redo_stack.pop()
RedoPop ==
    /\ upc = "redo"
    /\ IF redo_stack = <<>>
       THEN /\ lock' = "free" /\ upc' = "idle"
            /\ UNCHANGED <<redo_stack, u>>
       ELSE /\ redo_stack' = SubSeq(redo_stack, 1, Len(redo_stack) - 1)
            /\ u' = [calls |-> u.calls, session |-> Top(redo_stack),
                     i |-> 1, count |-> 0, errors |-> <<>>]
            /\ upc' = "redo_loop"
            /\ UNCHANGED lock
    /\ UNCHANGED <<fs, undo_stack>>
    /\ CallerFrame

\* redo: one record of the loop over session.records
RedoStep ==
    /\ upc = "redo_loop" /\ u.i <= Len(u.session.records)
    /\ LET one == RedoOne(fs, u.session.records[u.i], NoFault)
       IN /\ fs' = one.fs
          /\ u' = [u EXCEPT !.i = u.i + 1, !.count = u.count + one.renamed,
                            !.errors = u.errors \o one.errors]
    /\ UNCHANGED <<undo_stack, redo_stack, lock, upc>>
    /\ CallerFrame

\* redo: self._undo_stack.append(session); the lock is released on return
RedoPush ==
    /\ upc = "redo_loop" /\ u.i > Len(u.session.records)
    /\ undo_stack' = Append(undo_stack, u.session)
    /\ lock' = "free" /\ upc' = "idle"
    /\ u' = [calls |-> u.calls]
    /\ UNCHANGED <<fs, redo_stack>>
    /\ CallerFrame

\* clear_history: self._undo_stack.clear()
ClearUndoStack ==
    /\ upc = "clear_history"
    /\ undo_stack' = <<>>
    /\ upc' = "clear_redo"
    /\ UNCHANGED <<fs, redo_stack, lock, u>>
    /\ CallerFrame

\* clear_history: self._redo_stack.clear(); the lock is released
ClearRedoStack ==
    /\ upc = "clear_redo"
    /\ redo_stack' = <<>>
    /\ lock' = "free" /\ upc' = "idle"
    /\ UNCHANGED <<fs, undo_stack, u>>
    /\ CallerFrame

\* the call of the ledger the holder of the lock is in
Inside ==
    IF lock = "worker" THEN "record_session"
    ELSE IF lock = "caller"
    THEN (IF upc \in {"undo", "undo_loop"} THEN "undo"
          ELSE IF upc \in {"redo", "redo_loop"} THEN "redo" ELSE "clear_history")
    ELSE "none"

\* a third thread calls can_undo() or can_redo(): the length of the stack is
\* read as it is, the lock is not looked at
ReadPredicate(pred) ==
    /\ observed' = [pred |-> pred,
                    value |-> IF pred = "can_undo" THEN Len(undo_stack) > 0
                              ELSE Len(redo_stack) > 0,
                    inside |-> Inside]
    /\ UNCHANGED <<fs, undo_stack, redo_stack, created, call, before, ret, history, evars,
                   lock, wpc, w, upc, u, progress_log, completions>>

\* the batches handed to rename_files_async, each file to get another name, with
\* a progress callback that returns or raises at one of its invocations
AsyncBatches == { q \in Batches : \A i \in DOMAIN q : q[i].path # Join("D", q[i].new_name) }
DoStartAsync ==
    \E files \in AsyncBatches, dest_folder \in DestFolders, duplicate_mode \in DuplicateModes :
        \E raise_at \in 0..Len(files) : StartAsync(files, dest_folder, duplicate_mode, raise_at)
DoWorker ==
    \/ WorkerProgress \/ WorkerFile \/ WorkerAcquire \/ WorkerAppend
    \/ WorkerClear \/ WorkerTrim \/ WorkerComplete
DoCaller ==
    \/ \E op \in {"undo", "redo", "clear_history"} : CallerAcquire(op)
    \/ UndoPop \/ UndoStep \/ UndoPush
    \/ RedoPop \/ RedoStep \/ RedoPush
    \/ ClearUndoStack \/ ClearRedoStack
DoReadPredicate == \E pred \in {"can_undo", "can_redo"} : ReadPredicate(pred)

NextThreads == DoStartAsync \/ DoWorker \/ DoCaller \/ DoReadPredicate

\* the program after one batch has moved S/y.psd to D/a_1.psd and recorded it
FirstBatch ==
    RenameFilesCall(Restrict(InitialFiles, {SrcX, SrcY, DstA}), <<>>, <<>>, 1,
                    <<[path |-> SrcY, new_name |-> NameA]>>, "D", "increment", NoFault)
InitThreads ==
    /\ fs = FirstBatch.fs
    /\ undo_stack = FirstBatch.undo_stack
    /\ redo_stack = FirstBatch.redo_stack
    /\ created = 1
    /\ call = [op |-> "init"]
    /\ before = [fs |-> fs, undo_stack |-> <<>>, redo_stack |-> <<>>, recorded |-> FALSE]
    /\ ret = <<>>
    /\ history = <<>>
    /\ ThreadsIdle
    /\ ClockIdle
    /\ RevisionIdle
    /\ UtilIdle

\* one rename_files_async, one thread calling undo, redo and clear_history and
\* one thread calling the predicates, in any interleaving
SpecThreads == InitThreads /\ [][NextThreads]_vars

----------------------------------------------------------------------------
(* Two batches at once: rename_files on the caller thread while the worker *)
(* of rename_files_async runs, both in skip mode; RenameService._lock is    *)
(* created in __init__ and never taken                                      *)

\* the loose files, each to be named a.psd
RaceFileInfos == { [path |-> SrcX, new_name |-> NameA], [path |-> SrcY, new_name |-> NameA] }
RaceBatches == { <<info>> : info \in RaceFileInfos }

\* the locals of a rename_files call that has just started
BatchLocals(files, dest_folder, obj) ==
    [files |-> files, dest_folder |-> dest_folder, duplicate_mode |-> "skip", obj |-> obj,
     i |-> 1, records |-> <<>>, dup |-> FALSE]

\* if os.path.exists(new_path): what the thread sees now
BatchExists(f, l) ==
    [l EXCEPT !.dup = Exists(f, Join(l.dest_folder, l.files[l.i].new_name))]

\* the rest of the loop body, after the thread has looked: skip when the
\* target was there, else shutil.move onto whatever is there now
BatchMove(f, l) ==
    LET original_path == l.files[l.i].path
        new_path == Join(l.dest_folder, l.files[l.i].new_name)
        exception == MoveError(f, original_path, NoFault)
        one == IF l.dup
               THEN [fs |-> f,
                     record |-> RenameRecord(original_path, new_path, FALSE, "File already exists")]
               ELSE IF exception = ""
               THEN [fs |-> Move(f, original_path, new_path),
                     record |-> RenameRecord(original_path, new_path, TRUE, "")]
               ELSE [fs |-> f,
                     record |-> RenameRecord(original_path, new_path, FALSE, ErrorText(exception))]
    IN [fs |-> one.fs,
        l |-> [l EXCEPT !.records = Append(l.records, one.record), !.i = l.i + 1]]

\* where the thread goes after a file
AfterFile(l) ==
    IF l.i <= Len(l.files) THEN "exists"
    ELSE IF CountSuccess(l.records) > 0 THEN "record" ELSE "done"

\* rename_files_async(files, dest_folder, job_number, duplicate_mode="skip")
RaceStartWorker ==
    /\ wpc = "idle"
    /\ \E files \in RaceBatches, dest_folder \in DestFolders :
          w' = BatchLocals(files, dest_folder, created + 1)
    /\ wpc' = "exists"
    /\ created' = created + 1
    /\ UNCHANGED <<fs, undo_stack, redo_stack, call, before, ret, history, evars,
                   lock, upc, u, progress_log, completions, observed>>

RaceWorkerExists ==
    /\ wpc = "exists"
    /\ w' = BatchExists(fs, w)
    /\ wpc' = "move"
    /\ UNCHANGED <<fs, undo_stack, redo_stack, created, call, before, ret, history, evars,
                   lock, upc, u, progress_log, completions, observed>>

RaceWorkerMove ==
    /\ wpc = "move"
    /\ fs' = BatchMove(fs, w).fs
    /\ w' = BatchMove(fs, w).l
    /\ wpc' = AfterFile(BatchMove(fs, w).l)
    /\ UNCHANGED <<undo_stack, redo_stack, created, call, before, ret, history, evars,
                   lock, upc, u, progress_log, completions, observed>>

\* self.undo_manager.record_session(session), the whole of it under the
\* ledger's lock; the worker thread ends
RaceWorkerRecord ==
    /\ wpc = "record"
    /\ LockFree(lock)
    /\ undo_stack' = RecordSession(undo_stack, redo_stack, RenameSession(w.obj, w.records)).undo_stack
    /\ redo_stack' = <<>>
    /\ wpc' = "done"
    /\ UNCHANGED <<fs, created, call, before, ret, history, evars,
                   lock, w, upc, u, progress_log, completions, observed>>

\* rename_files(files, dest_folder, job_number, duplicate_mode="skip") on the
\* caller thread
RaceStartCaller ==
    /\ upc = "idle"
    /\ u.calls = 0
    /\ \E files \in RaceBatches, dest_folder \in DestFolders :
          u' = [BatchLocals(files, dest_folder, created + 1) EXCEPT !.i = 1] @@ [calls |-> 1]
    /\ upc' = "exists"
    /\ created' = created + 1
    /\ UNCHANGED <<fs, undo_stack, redo_stack, call, before, ret, history, evars,
                   lock, wpc, w, progress_log, completions, observed>>

RaceCallerExists ==
    /\ upc = "exists"
    /\ u' = BatchExists(fs, u)
    /\ upc' = "move"
    /\ UNCHANGED <<fs, undo_stack, redo_stack, created, call, before, ret, history, evars,
                   lock, wpc, w, progress_log, completions, observed>>

RaceCallerMove ==
    /\ upc = "move"
    /\ fs' = BatchMove(fs, u).fs
    /\ u' = BatchMove(fs, u).l
    /\ upc' = AfterFile(BatchMove(fs, u).l)
    /\ UNCHANGED <<undo_stack, redo_stack, created, call, before, ret, history, evars,
                   lock, wpc, w, progress_log, completions, observed>>

\* record_session under the ledger's lock; rename_files returns the session
RaceCallerRecord ==
    /\ upc = "record"
    /\ LockFree(lock)
    /\ undo_stack' = RecordSession(undo_stack, redo_stack, RenameSession(u.obj, u.records)).undo_stack
    /\ redo_stack' = <<>>
    /\ upc' = "done"
    /\ UNCHANGED <<fs, created, call, before, ret, history, evars,
                   lock, wpc, w, u, progress_log, completions, observed>>

NextRace ==
    \/ RaceStartWorker \/ RaceWorkerExists \/ RaceWorkerMove \/ RaceWorkerRecord
    \/ RaceStartCaller \/ RaceCallerExists \/ RaceCallerMove \/ RaceCallerRecord

\* one rename_files_async and one rename_files on the same service, from any
\* filesystem, their steps in any interleaving
SpecRace == Init /\ [][NextRace]_vars

----------------------------------------------------------------------------
(* Session ids: the clock and the batches of one user action *)

\* the clock ticks this many times in a second
TicksPerSecond == 2
\* the ticks the clock makes in a run
MaxTicks == 3

\* datetime.now().strftime("%Y%m%d_%H%M%S"): the date and the time of day down to
\* the second, the fraction of the second dropped
SessionId(t) == [second |-> t \div TicksPerSecond]

\* the destination folders of the files of one user action
HandlerFolders == { "D", "E" }

\* one turn of the handler's loop over the destination folders:
\* session = self.rename_service.rename_files(files, dest, job_number, duplicate_mode=dup_mode)
RenameFilesAt(files, dest, dup_mode) ==
    /\ RenameFiles(files, dest, dup_mode, NoFault)
    /\ ids' = Append(ids, SessionId(now))
    /\ UNCHANGED <<now, rvars, uvars>>

\* time passes between two calls
Tick ==
    /\ now < MaxTicks
    /\ now' = now + 1
    /\ UNCHANGED <<fs, undo_stack, redo_stack, created, call, before, ret, history, tvars,
                   ids, rvars, uvars>>

DoRenameFilesAt ==
    /\ Len(ids) < MaxCalls
    /\ \E files \in LedgerBatches, dest \in HandlerFolders, dup_mode \in DuplicateModes :
          RenameFilesAt(files, dest, dup_mode)

NextClock == DoRenameFilesAt \/ Tick

\* the batches of a run, each at some time of the clock
SpecClock == InitLedger /\ [][NextClock]_vars

----------------------------------------------------------------------------
(* RevisionDetector: file names and revision tokens are sequences of characters *)

\* the most entries a listed folder holds
MaxEntries == 3

Digits == <<"0", "1", "2", "3", "4", "5", "6", "7", "8", "9">>
LowerCase == <<"a", "c", "f", "i", "j", "k", "l", "n", "o", "p", "s", "t", "x">>
UpperCase == <<"A", "C", "F", "I", "J", "K", "L", "N", "O", "P", "S", "T", "X">>

\* \d
IsDigit(c) == \E d \in DOMAIN Digits : Digits[d] = c
DigitValue(c) == (CHOOSE d \in DOMAIN Digits : Digits[d] = c) - 1
\* \d+
IsNumber(str) == str # <<>> /\ \A k \in DOMAIN str : IsDigit(str[k])

RECURSIVE ParseInt(_)
\* int(rev) of a string of digits
ParseInt(str) ==
    IF str = <<>> THEN 0
    ELSE 10 * ParseInt(SubSeq(str, 1, Len(str) - 1)) + DigitValue(str[Len(str)])

RECURSIVE Str(_)
\* str(n) of a natural number
Str(n) == IF n < 10 THEN <<Digits[n + 1]>> ELSE Str(n \div 10) \o <<Digits[(n % 10) + 1]>>

\* str.upper(), which is also how re.IGNORECASE compares
UpperChar(c) ==
    IF \E k \in DOMAIN LowerCase : LowerCase[k] = c
    THEN UpperCase[CHOOSE k \in DOMAIN LowerCase : LowerCase[k] = c]
    ELSE c
Upper(str) == [k \in DOMAIN str |-> UpperChar(str[k])]

FINAL == <<"F", "I", "N", "A", "L">>
\* ["1", "2", "3", "4", "5", "FINAL"]
DefaultRevisions == << <<"1">>, <<"2">>, <<"3">>, <<"4">>, <<"5">>, FINAL >>

\* x in list
InList(x, list) == \E k \in DOMAIN list : list[k] = x

\* self.revision_list = revision_list or ["1", "2", "3", "4", "5", "FINAL"]
RevisionList(revision_list) == IF revision_list # <<>> THEN revision_list ELSE DefaultRevisions

\* pattern.match(filename).group(1) for the pattern
\* ^{escaped_base}_(\d+|FINAL){escaped extension}$ with re.IGNORECASE, or <<>>
\* when the name does not match
MatchGroup(filename, base_pattern, extension) ==
    LET b == Len(base_pattern)
        e == Len(extension)
        n == Len(filename)
        group == SubSeq(filename, b + 2, n - e)
    IN IF /\ n >= b + 1 + 1 + e
          /\ Upper(SubSeq(filename, 1, b)) = Upper(base_pattern)
          /\ filename[b + 1] = "_"
          /\ Upper(SubSeq(filename, n - e + 1, n)) = Upper(extension)
          /\ (IsNumber(group) \/ Upper(group) = FINAL)
       THEN group
       ELSE <<>>

RECURSIVE ScanListing(_, _, _)
\* the loop of _scan_for_revisions over os.listdir(folder_path)
ScanListing(listing, base_pattern, extension) ==
    IF listing = <<>> THEN <<>>
    ELSE LET group == MatchGroup(Head(listing), base_pattern, extension)
             rest == ScanListing(Tail(listing), base_pattern, extension)
         IN IF group # <<>> THEN <<Upper(group)>> \o rest ELSE rest

\* _scan_for_revisions: a PermissionError or another OSError of os.listdir is
\* logged and leaves found_revisions empty
ScanForRevisions(folder, base_pattern, extension) ==
    IF folder.listdir_error \in {"PermissionError", "OSError"} THEN <<>>
    ELSE ScanListing(folder.listing, base_pattern, extension)

\* a first revision that does not look at the vocabulary
GetFirstRevisionOne(revision_list) == <<"1">>

\* _get_first_revision
GetFirstRevision(revision_list) == IF revision_list # <<>> THEN revision_list[1] ELSE <<"1">>

RECURSIVE MaxNumeric(_, _)
\* the loop of _calculate_next_revision over found_revisions, from max_numeric
MaxNumeric(found_revisions, max_numeric) ==
    IF found_revisions = <<>> THEN max_numeric
    ELSE LET rev == Head(found_revisions)
         IN IF rev # FINAL /\ IsNumber(rev) /\ ParseInt(rev) > max_numeric
            THEN MaxNumeric(Tail(found_revisions), ParseInt(rev))
            ELSE MaxNumeric(Tail(found_revisions), max_numeric)

\* a next revision that looks the candidate up in the vocabulary before it
\* looks for FINAL among the found revisions
CalculateNextRevisionListFirst(revision_list, found_revisions) ==
    LET max_numeric == MaxNumeric(found_revisions, 0)
        next_rev == Str(max_numeric + 1)
    IN IF InList(next_rev, revision_list) THEN next_rev
       ELSE IF InList(FINAL, found_revisions) THEN FINAL
       ELSE IF InList(FINAL, revision_list) /\ max_numeric >= 5 THEN FINAL
       ELSE next_rev

\* a next revision whose threshold is the number of numeric entries of the vocabulary
CalculateNextRevisionByLength(revision_list, found_revisions) ==
    LET max_numeric == MaxNumeric(found_revisions, 0)
        next_rev == Str(max_numeric + 1)
    IN IF InList(FINAL, found_revisions) THEN FINAL
       ELSE IF InList(next_rev, revision_list) THEN next_rev
       ELSE IF InList(FINAL, revision_list) /\ max_numeric >= Len(revision_list) - 1 THEN FINAL
       ELSE next_rev

\* _calculate_next_revision
CalculateNextRevision(revision_list, found_revisions) ==
    LET max_numeric == MaxNumeric(found_revisions, 0)
        has_final == InList(FINAL, found_revisions)
        next_rev == Str(max_numeric + 1)
    IN IF has_final THEN FINAL
       ELSE IF InList(next_rev, revision_list) THEN next_rev
       ELSE IF InList(FINAL, revision_list) /\ max_numeric >= 5 THEN FINAL
       ELSE next_rev

\* find_next_revision of a detector made with RevisionDetector(revision_list)
FindNextRevision(revision_list, folder, base_pattern, extension) ==
    LET self_revision_list == RevisionList(revision_list)
        found_revisions == ScanForRevisions(folder, base_pattern, extension)
    IN IF folder.path = "" \/ folder.kind # "dir" THEN GetFirstRevision(self_revision_list)
       ELSE IF base_pattern = <<>> THEN GetFirstRevision(self_revision_list)
       ELSE IF found_revisions = <<>> THEN GetFirstRevision(self_revision_list)
       ELSE CalculateNextRevision(self_revision_list, found_revisions)

\* the inputs of the calls
BasePattern == <<"J">>
Extension == <<".", "p">>
FileName(base, token, extension) == base \o <<"_">> \o token \o extension
FileNames ==
    { FileName(BasePattern, <<"1">>, Extension),
      FileName(BasePattern, <<"2">>, Extension),
      FileName(BasePattern, <<"4">>, Extension),
      FileName(<<"j">>, <<"0", "5">>, <<".", "P">>),
      FileName(BasePattern, <<"f", "i", "n", "a", "l">>, Extension),
      FileName(BasePattern, <<"S", "_", "3">>, Extension),
      FileName(BasePattern, <<"9">>, <<".", "a">>),
      FileName(<<"K">>, <<"7">>, Extension) }
Listings == UNION { { q \in [1..n -> FileNames] : Injective(q) } : n \in 0..MaxEntries }
Folders ==
    { [path |-> "P", kind |-> "dir", listing |-> listing, listdir_error |-> error] :
          listing \in Listings, error \in {"none", "PermissionError", "OSError"} }
    \cup { [path |-> path, kind |-> kind, listing |-> <<>>, listdir_error |-> "none"] :
              path \in {"", "P"}, kind \in {"missing", "file"} }
RevisionLists ==
    { <<>>, DefaultRevisions,
      << <<"1">>, <<"2">>, FINAL >>,
      << <<"A">>, <<"B">> >>,
      << <<"1">>, <<"2">>, <<"3">>, <<"4">>, <<"5">>, <<"6">>, FINAL >> }

\* RevisionDetector(revision_list).find_next_revision(folder_path, base_pattern, extension)
DoFindNextRevision ==
    /\ rev_call.pc = "call"
    /\ rev_ret' = FindNextRevision(rev_call.revision_list, rev_call.folder,
                                   rev_call.base_pattern, rev_call.extension)
    /\ rev_call' = [rev_call EXCEPT !.pc = "done"]
    /\ UNCHANGED <<fs, undo_stack, redo_stack, created, call, before, ret, history, tvars, cvars, uvars>>

NextDetector == DoFindNextRevision

InitDetector ==
    /\ fs = Restrict(InitialFiles, {})
    /\ undo_stack = <<>>
    /\ redo_stack = <<>>
    /\ created = 0
    /\ call = [op |-> "init"]
    /\ before = [fs |-> fs, undo_stack |-> <<>>, redo_stack |-> <<>>, recorded |-> FALSE]
    /\ ret = <<>>
    /\ history = <<>>
    /\ ThreadsIdle
    /\ ClockIdle
    /\ UtilIdle
    /\ rev_call \in [pc : {"call"}, revision_list : RevisionLists, folder : Folders,
                     base_pattern : {BasePattern, <<>>}, extension : {Extension}]
    /\ rev_ret = <<>>

\* one call on any folder, with any vocabulary
SpecDetector == InitDetector /\ [][NextDetector]_vars

\* calls of find_next_revision in a run of calls on one folder
MaxRounds == 8

\* the names a folder holds before the first call, none of them of the shape
\* J_<N|FINAL>.p with that very base: another base, the base in the other
\* letter case, a token that is no revision, another extension
StartNames ==
    { FileName(<<"K">>, <<"7">>, Extension),
      FileName(<<"j">>, <<"2">>, Extension),
      FileName(BasePattern, <<"S", "_", "3">>, Extension),
      FileName(BasePattern, <<"9">>, <<".", "a">>) }
StartListings == UNION { { q \in [1..n -> StartNames] : Injective(q) } : n \in 0..MaxEntries }

InitRevisions ==
    /\ fs = Restrict(InitialFiles, {})
    /\ undo_stack = <<>>
    /\ redo_stack = <<>>
    /\ created = 0
    /\ call = [op |-> "init"]
    /\ before = [fs |-> fs, undo_stack |-> <<>>, redo_stack |-> <<>>, recorded |-> FALSE]
    /\ ret = <<>>
    /\ history = <<>>
    /\ ThreadsIdle
    /\ ClockIdle
    /\ UtilIdle
    /\ \E listing \in StartListings, revision_list \in {<<>>, DefaultRevisions} :
          rev_call = [pc |-> "call", revision_list |-> revision_list,
                      folder |-> [path |-> "P", kind |-> "dir", listing |-> listing,
                                  listdir_error |-> "none"],
                      base_pattern |-> BasePattern, extension |-> Extension, tokens |-> <<>>]
    /\ rev_ret = <<>>

\* detector.find_next_revision(folder_path, base_pattern, extension), once more
DoNextRevision ==
    /\ rev_call.pc = "call"
    /\ Len(rev_call.tokens) < MaxRounds
    /\ rev_ret' = FindNextRevision(rev_call.revision_list, rev_call.folder,
                                   rev_call.base_pattern, rev_call.extension)
    /\ rev_call' = [rev_call EXCEPT !.pc = "returned", !.tokens = Append(@, rev_ret')]
    /\ UNCHANGED <<fs, undo_stack, redo_stack, created, call, before, ret, history, tvars, cvars, uvars>>

\* the caller saves a file under the name made with the returned token: a new
\* entry of the folder, unless a file of that name is there already
DoAddRevisionFile ==
    /\ rev_call.pc = "returned"
    /\ LET name == FileName(rev_call.base_pattern, rev_ret, rev_call.extension)
           listing == rev_call.folder.listing
       IN rev_call' = [rev_call EXCEPT !.pc = "call",
                          !.folder.listing = IF InList(name, listing) THEN listing
                                             ELSE Append(listing, name)]
    /\ UNCHANGED <<rev_ret, fs, undo_stack, redo_stack, created, call, before, ret, history,
                   tvars, cvars, uvars>>

NextRevisions == DoNextRevision \/ DoAddRevisionFile

\* calls of find_next_revision on one folder, each followed by a file saved
\* under the returned token
SpecRevisions == InitRevisions /\ [][NextRevisions]_vars

\* a base pattern with regex metacharacters in it
ParenPattern == <<"(", "x", ")">>
\* the names of a scanned folder: revisions of J and of (x), the same with the
\* base in the other letter case, and names the parentheses would match if they
\* grouped
ScanNames ==
    { FileName(BasePattern, <<"1">>, Extension),
      FileName(BasePattern, <<"f", "i", "n", "a", "l">>, <<".", "P">>),
      FileName(<<"j">>, <<"2">>, Extension),
      FileName(ParenPattern, <<"3">>, Extension),
      FileName(<<"(", "X", ")">>, <<"4">>, Extension),
      FileName(<<"x">>, <<"5">>, Extension) }
ScanListings == UNION { { q \in [1..n -> ScanNames] : Injective(q) } : n \in 0..MaxEntries }

InitScan ==
    /\ fs = Restrict(InitialFiles, {})
    /\ undo_stack = <<>>
    /\ redo_stack = <<>>
    /\ created = 0
    /\ call = [op |-> "init"]
    /\ before = [fs |-> fs, undo_stack |-> <<>>, redo_stack |-> <<>>, recorded |-> FALSE]
    /\ ret = <<>>
    /\ history = <<>>
    /\ ThreadsIdle
    /\ ClockIdle
    /\ UtilIdle
    /\ \E listing \in ScanListings, base_pattern \in {BasePattern, ParenPattern} :
          rev_call = [pc |-> "call",
                      folder |-> [path |-> "P", kind |-> "dir", listing |-> listing,
                                  listdir_error |-> "none"],
                      base_pattern |-> base_pattern, extension |-> Extension]
    /\ rev_ret = <<>>

\* detector._scan_for_revisions(folder_path, base_pattern, extension)
DoScanForRevisions ==
    /\ rev_call.pc = "call"
    /\ rev_ret' = ScanForRevisions(rev_call.folder, rev_call.base_pattern, rev_call.extension)
    /\ rev_call' = [rev_call EXCEPT !.pc = "scanned"]
    /\ UNCHANGED <<fs, undo_stack, redo_stack, created, call, before, ret, history, tvars, cvars, uvars>>

\* one scan of any folder
SpecScan == InitScan /\ [][DoScanForRevisions]_vars

----------------------------------------------------------------------------
(* utils.sanitize_filename: names are sequences of characters *)

\* the most pieces a file name passed to sanitize_filename is made of
MaxPieces == 3

\* max_length = 200
max_length == 200

\* INVALID_FILENAME_CHARS = r'[<>:"/\\|?*\x00-\x1f]'; of the control characters
\* the model has the tab and the line feed
ForbiddenChars == { "<", ">", ":", "\"", "/", "\\", "|", "?", "*" }
ControlChars == { "\t", "\n" }
IsInvalidChar(c) == c \in ForbiddenChars \cup ControlChars

\* WINDOWS_RESERVED
WINDOWS_RESERVED ==
    { <<"C", "O", "N">>, <<"P", "R", "N">>, <<"A", "U", "X">>, <<"N", "U", "L">> }
    \cup { <<"C", "O", "M", Digits[d]>> : d \in 2..10 }
    \cup { <<"L", "P", "T", Digits[d]>> : d \in 2..10 }

RECURSIVE Sub(_, _)
\* INVALID_FILENAME_PATTERN.sub(replacement, filename), replacement without
\* backslashes: every invalid character gives way to the replacement (the
\* string is gone through by halves)
Sub(replacement, filename) ==
    IF filename = <<>> THEN <<>>
    ELSE IF Len(filename) = 1
    THEN IF IsInvalidChar(filename[1]) THEN replacement ELSE filename
    ELSE LET half == Len(filename) \div 2
         IN Sub(replacement, SubSeq(filename, 1, half))
            \o Sub(replacement, SubSeq(filename, half + 1, Len(filename)))

RECURSIVE LStrip(_)
LStrip(str) ==
    IF str # <<>> /\ Head(str) \in {" ", "."} THEN LStrip(Tail(str)) ELSE str
RECURSIVE RStrip(_)
RStrip(str) ==
    IF str # <<>> /\ str[Len(str)] \in {" ", "."}
    THEN RStrip(SubSeq(str, 1, Len(str) - 1)) ELSE str
\* str.strip(' .')
Strip(str) == RStrip(LStrip(str))

\* the position of the last '.' of the string, 0 when it has none
LastDot(str) ==
    IF \E k \in DOMAIN str : str[k] = "."
    THEN CHOOSE k \in DOMAIN str : str[k] = "." /\ \A m \in DOMAIN str : str[m] = "." => m <= k
    ELSE 0
\* str.split('.', 1): the text before and the text after the first '.'
SplitAtFirstDot(str) ==
    IF LastDot(str) = 0 THEN <<str>>
    ELSE LET first == CHOOSE k \in DOMAIN str :
                          str[k] = "." /\ \A m \in DOMAIN str : str[m] = "." => k <= m
         IN << SubSeq(str, 1, first - 1), SubSeq(str, first + 1, Len(str)) >>

\* str.rsplit('.', 1): one part when the string has no '.', else the text
\* before and the text after its last '.'
RSplit(str) ==
    IF LastDot(str) = 0 THEN <<str>>
    ELSE << SubSeq(str, 1, LastDot(str) - 1), SubSeq(str, LastDot(str) + 1, Len(str)) >>

\* str[:k], k negative counting from the end
Slice(str, k) ==
    IF k >= 0 THEN SubSeq(str, 1, IF k < Len(str) THEN k ELSE Len(str))
    ELSE SubSeq(str, 1, IF Len(str) + k > 0 THEN Len(str) + k ELSE 0)

Unnamed == <<"u", "n", "n", "a", "m", "e", "d">>

\* the last step of sanitize_filename: limit the length, preserve the extension
LimitLength(sanitized) ==
    IF Len(sanitized) > max_length
    THEN LET parts == RSplit(sanitized)
         IN IF Len(parts) = 2
            THEN Slice(parts[1], max_length - Len(parts[2]) - 1) \o <<".">> \o parts[2]
            ELSE Slice(sanitized, max_length)
    ELSE sanitized

\* a cleaning that leaves an empty name empty
CleanedMayBeEmpty(filename, replacement) ==
    LET stripped == Strip(Sub(replacement, filename))
    IN IF Upper(RSplit(stripped)[1]) \in WINDOWS_RESERVED THEN <<"_">> \o stripped ELSE stripped

\* sanitize_filename before the length limit, for a non-empty filename
Cleaned(filename, replacement) ==
    LET substituted == Sub(replacement, filename)
        stripped == Strip(substituted)
        name_without_ext == Upper(RSplit(stripped)[1])
        prefixed == IF name_without_ext \in WINDOWS_RESERVED THEN <<"_">> \o stripped ELSE stripped
    IN IF prefixed = <<>> THEN Unnamed ELSE prefixed

\* sanitize_filename(filename, replacement)
SanitizeFilename(filename, replacement) ==
    IF filename = <<>> THEN <<>>
    ELSE LimitLength(Cleaned(filename, replacement))

\* n times the character c
Repeat(c, n) == [k \in 1..n |-> c]
\* the pieces the file names of the calls are made of
Pieces ==
    { <<"a">>, <<".", "t">>, <<" ">>, <<".">>, <<"*">>, <<"\t">>,
      <<"c", "o", "n">>, <<"L", "P", "T", "1">>,
      Repeat("a", max_length - 2), Repeat("b", max_length) }
RECURSIVE Flatten(_)
Flatten(q) == IF q = <<>> THEN <<>> ELSE Head(q) \o Flatten(Tail(q))
SanitizeInputs == { Flatten(q) : q \in UNION { [1..n -> Pieces] : n \in 0..MaxPieces } }
Replacements == { <<"_">>, <<>>, <<"*">> }

\* every variable but those of the calls of the functions that make names
Quiescent ==
    /\ fs = Restrict(InitialFiles, {})
    /\ undo_stack = <<>>
    /\ redo_stack = <<>>
    /\ created = 0
    /\ call = [op |-> "init"]
    /\ before = [fs |-> fs, undo_stack |-> <<>>, redo_stack |-> <<>>, recorded |-> FALSE]
    /\ ret = <<>>
    /\ history = <<>>
    /\ ThreadsIdle
    /\ ClockIdle
    /\ RevisionIdle

UtilFrame ==
    UNCHANGED <<fs, undo_stack, redo_stack, created, call, before, ret, history, tvars,
                cvars, rvars>>

\* sanitize_filename(filename, replacement)
DoSanitizeFilename ==
    /\ util_call.pc = "call"
    /\ util_call.fn = "sanitize_filename"
    /\ util_ret' = SanitizeFilename(util_call.filename, util_call.replacement)
    /\ util_call' = [util_call EXCEPT !.pc = "done"]
    /\ UtilFrame

NextSanitize == DoSanitizeFilename

InitSanitize ==
    /\ Quiescent
    /\ util_call \in [pc : {"call"}, fn : {"sanitize_filename"},
                      filename : SanitizeInputs, replacement : Replacements]
    /\ util_ret = <<>>

\* one call on any file name, with any replacement
SpecSanitize == InitSanitize /\ [][NextSanitize]_vars

----------------------------------------------------------------------------
(* job_parser.JobFolderParser.parse *)

\* the most characters of the SKU of a folder name of the full format
MaxSkuChars == 3
\* the most characters of a folder name of any other form
MaxFolderChars == 4

\* the characters str.strip() removes and \s matches
Whitespace == { " ", "\t", "\n" }

\* a strip that leaves the beginning of the string alone
LStripNothing(str, chars) == str

RECURSIVE LStripChars(_, _)
LStripChars(str, chars) ==
    IF str # <<>> /\ Head(str) \in chars THEN LStripChars(Tail(str), chars) ELSE str

RECURSIVE RStripChars(_, _)
RStripChars(str, chars) ==
    IF str # <<>> /\ str[Len(str)] \in chars
    THEN RStripChars(SubSeq(str, 1, Len(str) - 1), chars) ELSE str

\* str.strip(chars)
StripChars(str, chars) == RStripChars(LStripChars(str, chars), chars)

\* the characters of strip('_- ')
Separators == { "_", "-", " " }

\* re.search(r'[\(\[]([^\)\]]+)[\)\]]$', folder_name).start(): the leftmost
\* opening bracket that a closing bracket at the end of the name closes with
\* at least one character and no closing bracket in between; 0 when there is none
PoMatchStart(folder_name) ==
    LET n == Len(folder_name)
        starts == { i \in 1..(n - 2) :
                      /\ folder_name[i] \in {"(", "["}
                      /\ folder_name[n] \in {")", "]"}
                      /\ \A k \in (i + 1)..(n - 1) : folder_name[k] \notin {")", "]"} }
    IN IF starts = {} THEN 0 ELSE CHOOSE i \in starts : \A j \in starts : i <= j

RECURSIVE Split(_, _)
\* str.split(sep) for a separator of one character
Split(str, sep) ==
    IF \E k \in DOMAIN str : str[k] = sep
    THEN LET first == CHOOSE k \in DOMAIN str : str[k] = sep /\ \A m \in 1..(k - 1) : str[m] # sep
         IN <<SubSeq(str, 1, first - 1)>> \o Split(SubSeq(str, first + 1, Len(str)), sep)
    ELSE <<str>>

RECURSIVE JoinWith(_, _)
\* sep.join(parts)
JoinWith(parts, sep) ==
    IF parts = <<>> THEN <<>>
    ELSE IF Len(parts) = 1 THEN parts[1]
    ELSE parts[1] \o sep \o JoinWith(Tail(parts), sep)

RECURSIVE LeadingDigits(_)
\* re.match(r'^(\d+)', str).group(1), <<>> when there is no match
LeadingDigits(str) ==
    IF str # <<>> /\ IsDigit(Head(str)) THEN <<Head(str)>> \o LeadingDigits(Tail(str)) ELSE <<>>

\* the first position from i on that holds no whitespace (Len + 1 when none)
SkipWhitespace(str, i) ==
    CHOOSE j \in i..(Len(str) + 1) :
        /\ j = Len(str) + 1 \/ str[j] \notin Whitespace
        /\ \A k \in i..(j - 1) : str[k] \in Whitespace

\* \s*[xX]\s*(\d+) matches from position i on: where its digits begin, 0 when it
\* does not match
SeparatorAt(str, i) ==
    LET x == SkipWhitespace(str, i)
    IN IF x <= Len(str) /\ str[x] \in {"x", "X"}
       THEN LET d == SkipWhitespace(str, x + 1)
            IN IF d <= Len(str) /\ IsDigit(str[d]) THEN d ELSE 0
       ELSE 0

\* re.match(r'(.+?)\s*[xX]\s*(\d+)', sku_qty): the lazy group takes the fewest
\* characters, at least one, after which the rest of the pattern matches
SkuMatch(sku_qty) ==
    LET ends == { p \in 1..Len(sku_qty) :
                    /\ SeparatorAt(sku_qty, p + 1) # 0
                    /\ \A k \in 1..p : sku_qty[k] # "\n" }
    IN IF ends = {} THEN [matched |-> FALSE]
       ELSE LET p == CHOOSE e \in ends : \A o \in ends : e <= o
                d == SeparatorAt(sku_qty, p + 1)
            IN [matched |-> TRUE, group1 |-> SubSeq(sku_qty, 1, p),
                group2 |-> LeadingDigits(SubSeq(sku_qty, d, Len(sku_qty)))]

\* JobInfo(raw=raw)
JobInfo(raw) ==
    [job_number |-> <<>>, customer |-> <<>>, company |-> <<>>, sku |-> <<>>,
     quantity |-> <<>>, po_number |-> <<>>, raw |-> raw]

\* JobInfo.is_valid
is_valid(info) == info.job_number # <<>>

\* JobFolderParser._clean_name
CleanNamePart(name) == StripChars(name, Separators)

\* JobFolderParser.parse
Parse(folder_name) ==
    IF folder_name = <<>> THEN JobInfo(<<>>)
    ELSE LET stripped == StripChars(folder_name, Whitespace)
             po == PoMatchStart(stripped)
             po_number == IF po # 0
                          THEN StripChars(SubSeq(stripped, po + 1, Len(stripped) - 1), Whitespace)
                          ELSE <<>>
             working == IF po # 0 THEN StripChars(SubSeq(stripped, 1, po - 1), Separators)
                        ELSE stripped
             parts == Split(working, "_")
             sku_qty == JoinWith(SubSeq(parts, 4, Len(parts)), <<"_">>)
             sku_match == SkuMatch(sku_qty)
         IN [job_number |-> LeadingDigits(parts[1]),
             customer |-> IF Len(parts) >= 2 THEN CleanNamePart(parts[2]) ELSE <<>>,
             company |-> IF Len(parts) >= 3 THEN CleanNamePart(parts[3]) ELSE <<>>,
             sku |-> IF Len(parts) >= 4
                     THEN IF sku_match.matched THEN StripChars(sku_match.group1, Whitespace)
                          ELSE StripChars(sku_qty, Whitespace)
                     ELSE <<>>,
             quantity |-> IF Len(parts) >= 4 /\ sku_match.matched THEN sku_match.group2 ELSE <<>>,
             po_number |-> po_number,
             raw |-> folder_name]

\* the folder names of the full format: <digits>_<A>_<B>_<SKU> x <N>_(PO), the
\* PO in parentheses or in square brackets
SkuChars == { "M", "x", "X", "1", "-" }
Skus == UNION { [1..n -> SkuChars] : n \in 1..MaxSkuChars }
Brackets == { <<"(", ")">>, <<"[", "]">> }
FullFormat(digits, a, b, sku, n, po, bracket) ==
    digits \o <<"_">> \o a \o <<"_">> \o b \o <<"_">> \o sku \o <<" ", "x", " ">> \o n
           \o <<"_", bracket[1]>> \o po \o <<bracket[2]>>
FullFormatParts ==
    [digits : { <<"7">>, <<"1", "2">> }, a : { <<"J">>, <<"a", "c">> }, b : { <<"A">> },
     sku : Skus, n : { <<"5">>, <<"1", "0">> }, po : { <<"P", "-", "9">> }, bracket : Brackets]
\* folder names of any form
FolderChars == { "1", "a", "_", "-", " ", "(", ")" }
AnyFolderNames == UNION { [1..n -> FolderChars] : n \in 0..MaxFolderChars }

\* JobFolderParser.parse(folder_name)
DoParse ==
    /\ util_call.pc = "call"
    /\ util_call.fn = "parse"
    /\ util_ret' = Parse(util_call.folder_name)
    /\ util_call' = [util_call EXCEPT !.pc = "done"]
    /\ UtilFrame

NextParser == DoParse

InitParser ==
    /\ Quiescent
    /\ \/ \E parts \in FullFormatParts :
             util_call = [pc |-> "call", fn |-> "parse", form |-> "full", parts |-> parts,
                          folder_name |-> FullFormat(parts.digits, parts.a, parts.b, parts.sku,
                                                     parts.n, parts.po, parts.bracket)]
       \/ \E folder_name \in AnyFolderNames :
             util_call = [pc |-> "call", fn |-> "parse", form |-> "any", parts |-> <<>>,
                          folder_name |-> folder_name]
    /\ util_ret = <<>>

\* one call on a folder name
SpecParser == InitParser /\ [][NextParser]_vars

----------------------------------------------------------------------------
(* services.RenameService.generate_filename *)

\* str.lower()
LowerChar(c) ==
    IF \E k \in DOMAIN UpperCase : UpperCase[k] = c
    THEN LowerCase[CHOOSE k \in DOMAIN UpperCase : UpperCase[k] = c]
    ELSE c

Lower(str) == [k \in DOMAIN str |-> LowerChar(str[k])]

\* str.rfind(c) + 1: the position of the last c, 0 when there is none
RFind(str, c) ==
    IF \E k \in DOMAIN str : str[k] = c
    THEN CHOOSE k \in DOMAIN str : str[k] = c /\ \A m \in DOMAIN str : str[m] = c => m <= k
    ELSE 0

\* os.path.basename(p): what follows the last '/'
Basename(p) == SubSeq(p, RFind(p, "/") + 1, Len(p))

\* os.path.splitext(p): the extension starts at the last '.' of the last
\* component, unless only dots precede it there
SplitExt(p) ==
    LET sepIndex == RFind(p, "/")
        dotIndex == RFind(p, ".")
    IN IF /\ dotIndex > sepIndex
          /\ \E k \in (sepIndex + 1)..(dotIndex - 1) : p[k] # "."
       THEN << SubSeq(p, 1, dotIndex - 1), SubSeq(p, dotIndex, Len(p)) >>
       ELSE << p, <<>> >>

\* parts.append(x) under "if field:"
AppendIf(parts, field, x) == IF field # <<>> THEN Append(parts, x) ELSE parts

\* generate_filename with every field appended, an empty one as an empty part
GenerateFilenameWithPlaceholders(original_path, job_number, sku, artwork_ref, purpose, revision) ==
    LET ext == Lower(SplitExt(original_path)[2])
        parts == << SanitizeFilename(job_number, <<"_">>), SanitizeFilename(sku, <<"_">>),
                    <<"(">> \o SanitizeFilename(artwork_ref, <<"_">>) \o <<")">>,
                    SanitizeFilename(purpose, <<"_">>), SanitizeFilename(revision, <<"_">>) >>
    IN IF job_number = <<>> /\ sku = <<>> /\ artwork_ref = <<>> /\ purpose = <<>> /\ revision = <<>>
       THEN Basename(original_path)
       ELSE JoinWith(parts, <<"_">>) \o ext
GenerateFilename(original_path, job_number, sku, artwork_ref, purpose, revision) ==
    LET ext == Lower(SplitExt(original_path)[2])
        p1 == AppendIf(<<>>, job_number, SanitizeFilename(job_number, <<"_">>))
        p2 == AppendIf(p1, sku, SanitizeFilename(sku, <<"_">>))
        p3 == AppendIf(p2, artwork_ref,
                       <<"(">> \o SanitizeFilename(artwork_ref, <<"_">>) \o <<")">>)
        p4 == AppendIf(p3, purpose, SanitizeFilename(purpose, <<"_">>))
        parts == AppendIf(p4, revision, SanitizeFilename(revision, <<"_">>))
    IN IF parts = <<>> THEN Basename(original_path) ELSE JoinWith(parts, <<"_">>) \o ext

\* paths of source files: an upper-case extension, a directory, a hidden
\* file, a dot in the directory only, no extension, a trailing dot
OriginalPaths ==
    { <<"a", ".", "P", "S">>, <<"c", "/", "a", ".", "A", "i">>, <<"c", "/", ".", "a">>,
      <<"c", ".", "t", "/", "a">>, <<"a">>, <<"a", ".">>, <<"a", ".", "t", ".", "X">> }

\* values of a field: absent, plain, one forbidden character, one that
\* sanitizes to "unnamed", a reserved device name
FieldValues == { <<>>, <<"1">>, <<"*">>, <<" ">>, <<"c", "o", "n">> }

DoGenerateFilename ==
    /\ util_call.pc = "call"
    /\ util_call.fn = "generate_filename"
    /\ util_ret' = GenerateFilename(util_call.original_path, util_call.job_number,
                                    util_call.sku, util_call.artwork_ref, util_call.purpose,
                                    util_call.revision)
    /\ util_call' = [util_call EXCEPT !.pc = "done"]
    /\ UtilFrame

NextCompose == DoGenerateFilename

InitCompose ==
    /\ Quiescent
    /\ \E original_path \in OriginalPaths :
       \E job_number \in FieldValues, sku \in FieldValues, artwork_ref \in FieldValues :
       \E purpose \in FieldValues, revision \in FieldValues :
           util_call = [pc |-> "call", fn |-> "generate_filename",
                        original_path |-> original_path, job_number |-> job_number,
                        sku |-> sku, artwork_ref |-> artwork_ref, purpose |-> purpose,
                        revision |-> revision]
    /\ util_ret = <<>>

\* one call of generate_filename
SpecCompose == InitCompose /\ [][NextCompose]_vars

----------------------------------------------------------------------------
(* Properties *)

IsRename == call.op = "rename_files"
IsUndo == call.op = "undo"
IsRedo == call.op = "redo"
\* the last call was a rename_files that handed its session to record_session
Recorded == IsRename /\ success_count(ret) > 0

\* C1: whatever the redo stack held before, after a call that records a
\* session the redo stack is empty and can_redo() is false.
C1_RecordClearsRedo == Recorded => (redo_stack = <<>> /\ ~CanRedo)

C1_Witness == Recorded /\ before.redo_stack # <<>> /\ redo_stack = <<>>

\* C2: the undo stack never holds more than max_history sessions; a record
\* that would exceed the bound removes exactly the oldest entry and keeps the
\* others in order; a redo pushes the session it popped and stays in the bound.
C2_UndoStackBounded ==
    /\ Len(undo_stack) <= max_history
    /\ Recorded =>
          undo_stack = IF Len(before.undo_stack) >= max_history
                       THEN Tail(before.undo_stack) \o <<ret>>
                       ELSE before.undo_stack \o <<ret>>
    /\ (IsRedo /\ before.redo_stack # <<>>) =>
          undo_stack = Append(before.undo_stack, before.redo_stack[Len(before.redo_stack)])

C2_Witness ==
    /\ Recorded
    /\ Len(before.undo_stack) = max_history
    /\ max_history >= 2
    /\ undo_stack = Tail(before.undo_stack) \o <<ret>>

\* the last call was an undo, made right after a rename_files that recorded its
\* session, and no file operation raised in it
UndoAfterRename == IsUndo /\ before.recorded /\ call.fault = NoFault

\* C3 as claimed: after any batch with n >= 1 successes, the undo that follows
\* leaves a file at every successful record's original_path and none at its
\* new_path, reports n restored files and makes can_redo() true.
C3_UndoRestoresEveryRecord ==
    UndoAfterRename =>
        LET session == Top(before.undo_stack)
        IN /\ \A i \in Successes(session) :
                 /\ Exists(fs, session.records[i].original_path)
                 /\ ~Exists(fs, session.records[i].new_path)
           /\ ret[3] = success_count(session)
           /\ CanRedo

\* no successful record's new_path is the original_path of another successful
\* record, or the new_path of another record that was not skipped
SeparatePaths(session) ==
    \A i \in Successes(session) : \A j \in DOMAIN session.records \ {i} :
        /\ session.records[j].success =>
              session.records[j].original_path # session.records[i].new_path
        /\ (session.records[j].success \/ session.records[j].error # "File already exists") =>
              session.records[j].new_path # session.records[i].new_path

\* C3 (amended): when the session's records have separate paths, the undo that
\* follows the batch puts the file found at each successful record's new_path
\* back at its original_path, leaves nothing at the new_path, returns
\* (True, "Restored n files", n) and makes can_redo() true.
C3_UndoRestoresSeparateRecords ==
    (UndoAfterRename /\ SeparatePaths(Top(before.undo_stack))) =>
        LET session == Top(before.undo_stack)
            n == success_count(session)
        IN /\ \A i \in Successes(session) :
                 /\ Exists(fs, session.records[i].original_path)
                 /\ fs[session.records[i].original_path] = before.fs[session.records[i].new_path]
                 /\ ~Exists(fs, session.records[i].new_path)
           /\ ret = <<TRUE, <<"Restored", n, "files">>, n>>
           /\ CanRedo

C3_Witness ==
    /\ UndoAfterRename
    /\ SeparatePaths(Top(before.undo_stack))
    /\ success_count(Top(before.undo_stack)) = 2
    /\ ret[3] = 2
    /\ Exists(fs, SrcX) /\ Exists(fs, SrcY)

\* the last call was an undo of a session in which no file operation raised
UndoWithoutFault == IsUndo /\ before.undo_stack # <<>> /\ call.fault = NoFault
\* the redo that follows it, no file operation raising
RedoAfterUndo == RedoCall(fs, undo_stack, redo_stack, NoFault)

Popped ==
    IF IsUndo /\ before.undo_stack # <<>> THEN <<Top(before.undo_stack)>>
    ELSE IF IsRedo /\ before.redo_stack # <<>> THEN <<Top(before.redo_stack)>>
    ELSE <<>>
\* the paths its successful records name
PoppedPaths ==
    UNION { UNION { { Popped[k].records[i].original_path, Popped[k].records[i].new_path } :
                    i \in Successes(Popped[k]) } : k \in DOMAIN Popped }
\* the sessions record_session has dropped from the bottom of the undo stack
Evicted == { o \in DOMAIN history : history[o].evicted }
\* the paths that hold the file with content c
Holds(f, c) == { q \in DOMAIN f : f[q] = c }

\* C5 as claimed: an evicted session is in neither stack, and no undo or redo
\* moves a file that one of its successful records moved: the file is where it
\* was before the call.
C5_EvictedFilesStay ==
    \A o \in Evicted :
        /\ ~InStack(undo_stack, o) /\ ~InStack(redo_stack, o)
        /\ (IsUndo \/ IsRedo) =>
              \A i \in Successes(history[o].session) :
                  Holds(fs, history[o].moved[i]) = Holds(before.fs, history[o].moved[i])

\* C5 (amended): an evicted session is in neither stack and never re-enters
\* one, and an undo or redo moves a file of one of its successful records only
\* when that file lies at a path named by a successful record of the session
\* the call pops; otherwise the file is where it was before the call.
C5_EvictedNeverReplayed ==
    \A o \in Evicted :
        /\ ~InStack(undo_stack, o) /\ ~InStack(redo_stack, o)
        /\ (IsUndo \/ IsRedo) =>
              \A i \in Successes(history[o].session) :
                  (Holds(before.fs, history[o].moved[i]) \cap PoppedPaths = {}) =>
                      Holds(fs, history[o].moved[i]) = Holds(before.fs, history[o].moved[i])

\* an undo restored a file while the file of an evicted session stayed at its
\* destination path, and the undo stack is empty: every remaining session has
\* been undone
C5_Witness ==
    /\ IsUndo /\ ret[3] >= 1 /\ undo_stack = <<>>
    /\ \E o \in Evicted : \E i \in Successes(history[o].session) :
          /\ Holds(fs, history[o].moved[i]) = { history[o].session.records[i].new_path }
          /\ ~Exists(fs, history[o].session.records[i].original_path)

\* the filesystem after the first j files of the last batch have been processed
PrefixFs(j) ==
    RenameLoop(before.fs, SubSeq(call.files, 1, j), 1,
               call.dest_folder, call.duplicate_mode, call.fault).fs
\* the destination path asked for the j-th file of the last batch
DestPath(j) == Join(call.dest_folder, call.files[j].new_name)
\* the smallest n >= 1 for which base_path with the suffix _n is free
SmallestFree(f, base_path) ==
    CHOOSE n \in 1..(Cardinality(DOMAIN f) + 1) :
        /\ ~Exists(f, Candidate(base_path, n))
        /\ \A m \in 1..(n - 1) : Exists(f, Candidate(base_path, m))
\* the j-th file of the last batch can be moved when its turn comes: its source
\* exists and is not locked, and its destination is free or the duplicate mode
\* makes room for it
Movable(j) ==
    LET pre == PrefixFs(j - 1)
        src == call.files[j].path
    IN /\ Exists(pre, src)
       /\ ~Raises(call.fault, src)
       /\ \/ ~Exists(pre, DestPath(j))
          \/ call.duplicate_mode = "increment" /\ SmallestFree(pre, DestPath(j)) <= MaxAttempts
          \/ call.duplicate_mode = "overwrite" /\ ~Raises(call.fault, DestPath(j))
                                               /\ src # DestPath(j)

C7_RecordedIffSuccess ==
    IsRename =>
        /\ ret.records # <<>>
        /\ InStack(undo_stack, ret.obj) <=> success_count(ret) > 0
        /\ success_count(ret) = 0 =>
              /\ undo_stack = before.undo_stack
              /\ redo_stack = before.redo_stack
        /\ success_count(ret) > 0 =>
              /\ Top(undo_stack) = ret
              /\ Cardinality({ k \in DOMAIN undo_stack : undo_stack[k].obj = ret.obj }) = 1
              /\ ~InStack(redo_stack, ret.obj)
              /\ ~InStack(before.undo_stack, ret.obj)

\* a batch with no success left a non-empty redo stack and the undo stack alone
C7_Witness ==
    /\ IsRename
    /\ success_count(ret) = 0
    /\ redo_stack # <<>> /\ redo_stack = before.redo_stack
    /\ undo_stack # <<>> /\ undo_stack = before.undo_stack

\* C8: in skip mode, a file whose destination exists when its turn comes gets a
\* failed record with the error "File already exists", and processing it
\* changes no path: its source and the file at the destination are as before.
C8_SkipLeavesBoth ==
    (IsRename /\ call.duplicate_mode = "skip") =>
        \A j \in DOMAIN call.files :
            Exists(PrefixFs(j - 1), DestPath(j)) =>
                /\ ~ret.records[j].success
                /\ ret.records[j].error = "File already exists"
                /\ ret.records[j].new_path = DestPath(j)
                /\ PrefixFs(j) = PrefixFs(j - 1)
                /\ Len(call.files) = 1 => fs = before.fs

\* a single file was skipped: its source and the destination file are in place
C8_Witness ==
    /\ IsRename /\ call.duplicate_mode = "skip" /\ Len(call.files) = 1
    /\ ret.records[1].error = "File already exists"
    /\ call.files[1].path # DestPath(1)
    /\ Exists(fs, call.files[1].path) /\ Exists(fs, DestPath(1))
    /\ fs = before.fs

\* the j-th file of the last batch meets an existing destination in increment
\* mode, a suffix is free within the probe limit, and its move does not raise
Incremented(j) ==
    /\ IsRename /\ call.duplicate_mode = "increment"
    /\ j \in DOMAIN call.files
    /\ Exists(PrefixFs(j - 1), DestPath(j))
    /\ SmallestFree(PrefixFs(j - 1), DestPath(j)) <= MaxAttempts
    /\ Exists(PrefixFs(j - 1), call.files[j].path)
    /\ ~Raises(call.fault, call.files[j].path)
\* such a file is moved to the destination name with the smallest free suffix
MovedToSmallestFree(j) ==
    LET pre == PrefixFs(j - 1)
        post == PrefixFs(j)
        target == Candidate(DestPath(j), SmallestFree(pre, DestPath(j)))
    IN /\ ret.records[j].success
       /\ ret.records[j].new_path = target
       /\ Exists(post, target) /\ post[target] = pre[call.files[j].path]
       /\ ~Exists(post, call.files[j].path)
\* when the destination is free the path is used as it is
FreePathKept(j) ==
    (IsRename /\ call.duplicate_mode = "increment" /\ ~Exists(PrefixFs(j - 1), DestPath(j))) =>
        ret.records[j].new_path = DestPath(j)

\* C9 as claimed: an incremented file is moved to name_N, N the smallest free
\* suffix, its source path is vacant, and the file that was at name.ext is
\* still there, unchanged.
C9_IncrementKeepsExisting ==
    IsRename => \A j \in DOMAIN call.files :
        /\ FreePathKept(j)
        /\ Incremented(j) =>
              /\ MovedToSmallestFree(j)
              /\ Exists(PrefixFs(j), DestPath(j))
              /\ PrefixFs(j)[DestPath(j)] = PrefixFs(j - 1)[DestPath(j)]

\* C9 (amended): an incremented file is moved to name_N, N the smallest free
\* suffix, its source path is vacant, and the file that was at name.ext is
\* still there, unchanged, unless it is the source file itself.
C9_IncrementSmallestFree ==
    IsRename => \A j \in DOMAIN call.files :
        /\ FreePathKept(j)
        /\ Incremented(j) =>
              /\ MovedToSmallestFree(j)
              /\ call.files[j].path # DestPath(j) =>
                    /\ Exists(PrefixFs(j), DestPath(j))
                    /\ PrefixFs(j)[DestPath(j)] = PrefixFs(j - 1)[DestPath(j)]

\* a.psd and a_1.psd existed, the file went to a_2.psd and a.psd kept its content
C9_Witness ==
    /\ Incremented(1) /\ Len(call.files) = 1
    /\ SmallestFree(before.fs, DestPath(1)) = 2
    /\ ret.records[1].new_path = DstA2
    /\ Exists(fs, DstA2) /\ fs[DstA2] = before.fs[call.files[1].path]
    /\ Exists(fs, DstA) /\ fs[DstA] = before.fs[DstA]

\* the filesystem an undo of the session has produced when it reaches record i,
\* having gone through the records after it
UndoPre(session, i) ==
    UndoLoop(before.fs, SubSeq(session.records, i + 1, Len(session.records)),
             Len(session.records) - i, call.fault).fs
\* the filesystem a redo of the session has produced when it reaches record i
RedoPre(session, i) ==
    RedoLoop(before.fs, SubSeq(session.records, 1, i - 1), 1, call.fault).fs
\* the records an undo can restore: the file is at new_path and the move does not raise
Restorable(session) ==
    { i \in Successes(session) :
        /\ Exists(UndoPre(session, i), session.records[i].new_path)
        /\ ~Raises(call.fault, session.records[i].new_path) }
\* the records a redo can replay: the file is at original_path and the move does not raise
Replayable(session) ==
    { i \in Successes(session) :
        /\ Exists(RedoPre(session, i), session.records[i].original_path)
        /\ ~Raises(call.fault, session.records[i].original_path) }

\* C10: an undo goes through every successful record of the session it pops,
\* whatever failed before: each record that can be restored when its turn
\* comes is restored; the session is pushed onto the redo stack in any case;
\* the success flag is false exactly when some record could not be restored and
\* the count is the number of records restored. A redo does the same towards
\* the undo stack.
C10_UndoRedoContinue ==
    /\ (IsUndo /\ before.undo_stack # <<>>) =>
          LET session == Top(before.undo_stack)
          IN /\ undo_stack = SubSeq(before.undo_stack, 1, Len(before.undo_stack) - 1)
             /\ redo_stack = Append(before.redo_stack, session)
             /\ ret[1] = (Restorable(session) = Successes(session))
             /\ ret[3] = Cardinality(Restorable(session))
             /\ fs = UndoPre(session, 0)
             /\ \A i \in Restorable(session) :
                   /\ Exists(UndoPre(session, i - 1), session.records[i].original_path)
                   /\ UndoPre(session, i - 1)[session.records[i].original_path]
                         = UndoPre(session, i)[session.records[i].new_path]
    /\ (IsRedo /\ before.redo_stack # <<>>) =>
          LET session == Top(before.redo_stack)
          IN /\ redo_stack = SubSeq(before.redo_stack, 1, Len(before.redo_stack) - 1)
             /\ undo_stack = Append(before.undo_stack, session)
             /\ ret[1] = (Replayable(session) = Successes(session))
             /\ ret[3] = Cardinality(Replayable(session))
             /\ fs = RedoPre(session, Len(session.records) + 1)
             /\ \A i \in Replayable(session) :
                   /\ Exists(RedoPre(session, i + 1), session.records[i].new_path)
                   /\ RedoPre(session, i + 1)[session.records[i].new_path]
                         = RedoPre(session, i)[session.records[i].original_path]

\* an undo could not restore the record it came to first, restored the other
\* one and pushed the session
C10_Witness ==
    /\ IsUndo /\ before.undo_stack # <<>>
    /\ Successes(Top(before.undo_stack)) = {1, 2}
    /\ Restorable(Top(before.undo_stack)) = {1}
    /\ ret = <<FALSE, <<"Restored", 1, "files with", 1, "errors">>, 1>>
    /\ Top(redo_stack) = Top(before.undo_stack)
    /\ Exists(fs, Top(before.undo_stack).records[1].original_path)

IsClear == call.op = "clear_history"
\* the number of places the session object obj takes in the stack
Places(stack, obj) == Cardinality({ k \in DOMAIN stack : stack[k].obj = obj })
\* the session objects the ledger refers to
InLedger(us, rs) == { us[k].obj : k \in DOMAIN us } \cup { rs[k].obj : k \in DOMAIN rs }

\* C11: a recorded session is in at most one stack, once; it enters the undo
\* stack when it is recorded or redone and the redo stack when it is undone;
\* an undo moves exactly the top of the undo stack to the top of the redo
\* stack and a redo the reverse; a session leaves the ledger only when the
\* trimming of a record drops it from the bottom of the undo stack, when a
\* record clears the redo stack, or by clear_history.
C11_SessionLifecycle ==
    /\ \A o \in DOMAIN history : Places(undo_stack, o) + Places(redo_stack, o) <= 1
    /\ InLedger(undo_stack, redo_stack) \subseteq DOMAIN history
    /\ \A k \in DOMAIN undo_stack : undo_stack[k] = history[undo_stack[k].obj].session
    /\ \A k \in DOMAIN redo_stack : redo_stack[k] = history[redo_stack[k].obj].session
    /\ (IsUndo /\ before.undo_stack # <<>>) =>
          /\ undo_stack = SubSeq(before.undo_stack, 1, Len(before.undo_stack) - 1)
          /\ redo_stack = Append(before.redo_stack, Top(before.undo_stack))
    /\ (IsUndo /\ before.undo_stack = <<>>) =>
          (undo_stack = before.undo_stack /\ redo_stack = before.redo_stack)
    /\ (IsRedo /\ before.redo_stack # <<>>) =>
          /\ redo_stack = SubSeq(before.redo_stack, 1, Len(before.redo_stack) - 1)
          /\ undo_stack = Append(before.undo_stack, Top(before.redo_stack))
    /\ (IsRedo /\ before.redo_stack = <<>>) =>
          (undo_stack = before.undo_stack /\ redo_stack = before.redo_stack)
    /\ \A o \in InLedger(before.undo_stack, before.redo_stack) \ InLedger(undo_stack, redo_stack) :
          \/ IsClear
          \/ Recorded /\ InStack(before.redo_stack, o)
          \/ Recorded /\ Len(before.undo_stack) >= max_history /\ before.undo_stack[1].obj = o
    /\ \A o \in InLedger(undo_stack, redo_stack) \ InLedger(before.undo_stack, before.redo_stack) :
          Recorded /\ ret.obj = o /\ Top(undo_stack) = ret

\* a redo took the top of the redo stack back onto the undo stack while an
\* older undone session stayed in the redo stack
C11_Witness ==
    /\ IsRedo /\ Len(before.redo_stack) >= 2
    /\ Top(undo_stack) = Top(before.redo_stack)
    /\ redo_stack = SubSeq(before.redo_stack, 1, Len(before.redo_stack) - 1)
    /\ Places(undo_stack, Top(undo_stack).obj) = 1
    /\ Places(redo_stack, Top(undo_stack).obj) = 0

\* the worker is inside the body of record_session, the caller thread inside
\* the body of undo, redo or clear_history
WorkerInside == wpc \in {"append", "clear", "trim"}
CallerInside == upc # "idle"
WorkerEnded == wpc \in {"done", "dead"}

\* C12: a can_undo() or can_redo() never runs while another thread is inside
\* record_session, undo or redo.
C12_PredicatesLocked ==
    observed.pred # "none" => observed.inside \notin {"record_session", "undo", "redo"}

\* C13: at most one of record_session, undo, redo and clear_history is inside
\* its body at a time, and the thread inside holds the lock from its first
\* statement to its last, the file moves of an undo or redo included.
C13_LedgerCallsExclusive ==
    /\ ~(WorkerInside /\ CallerInside)
    /\ WorkerInside <=> lock = "worker"
    /\ CallerInside <=> lock = "caller"

\* an undo has restored a file and holds the lock while the worker waits to
\* record its session
C13_Witness ==
    /\ upc = "undo_loop" /\ u.count = 1 /\ lock = "caller"
    /\ wpc = "record"

\* C14: on_complete is invoked once, with the session that holds a record for
\* every input file, and a worker thread that has ended has invoked it,
\* whatever the files and the progress callback did.
C14_CompletionDelivered ==
    /\ Len(completions) <= 1
    /\ \A k \in DOMAIN completions : Len(completions[k].records) = Len(w.files)
    /\ WorkerEnded => Len(completions) = 1

\* C15: on_progress is invoked once per input file, in input order, with
\* (i + 1, total, new_name), before the file gets its record; a rename_files
\* that has ended has invoked it for every file.
C15_ProgressPerFile ==
    /\ \A k \in DOMAIN progress_log :
          progress_log[k] = <<k, Len(w.files), w.files[k].new_name>>
    /\ wpc # "idle" => Len(w.records) <= Len(progress_log)
    /\ wpc = "file" => Len(progress_log) = Len(w.records) + 1
    /\ (WorkerEnded \/ wpc \in {"record", "append", "clear", "trim", "complete"}) =>
          Len(progress_log) = Len(w.files)

\* the file contents a filesystem holds
Contents(f) == { f[p] : p \in DOMAIN f }

\* the filesystem an undo() called now, no move of it failing, would leave
UndoneNow == UndoCall(fs, undo_stack, redo_stack, NoFault).fs

\* C16 as claimed: in every duplicate mode, the undo that follows a batch
\* leaves every path with the content it had before the batch.
C16_UndoRestoresFilesystem == Recorded => UndoneNow = before.fs

\* C16 (amended): a batch in the skip or increment mode deletes no file; the
\* undo that follows a batch that moved at least one file and deleted none,
\* no move of the undo failing, leaves every path with exactly the content
\* it had before the batch.
C16_UndoRestoresUnlessDeleted ==
    /\ (IsRename /\ call.duplicate_mode # "overwrite") => Contents(fs) = Contents(before.fs)
    /\ (Recorded /\ Contents(fs) = Contents(before.fs)) => UndoneNow = before.fs

C16_Witness ==
    /\ UndoAfterRename
    /\ LET session == Top(redo_stack)
       IN /\ success_count(session) = 2
          /\ session.records[1].original_path = DstA /\ session.records[1].new_path = DstA1
          /\ session.records[2].original_path = SrcX /\ session.records[2].new_path = DstA
    /\ before.fs[DstA1] = InitialFiles[DstA] /\ before.fs[DstA] = InitialFiles[SrcX]
    /\ ~Exists(before.fs, SrcX)
    /\ fs[DstA] = InitialFiles[DstA] /\ fs[SrcX] = InitialFiles[SrcX]
    /\ ~Exists(fs, DstA1)

\* C17: any two sessions created by two calls of rename_files in the same run
\* have different ids, however close in time the two calls are.
C17_SessionIdsUnique == \A i, j \in DOMAIN ids : i # j => ids[i] # ids[j]

\* find_next_revision has returned
Returned == rev_call.pc = "done"
\* the call got as far as the scan of the folder
Scanned ==
    /\ Returned
    /\ rev_call.folder.path # "" /\ rev_call.folder.kind = "dir"
    /\ rev_call.base_pattern # <<>>
\* what the scan of the call's folder found
Found == ScanForRevisions(rev_call.folder, rev_call.base_pattern, rev_call.extension)
\* the vocabulary of the detector: the configured list, the default one when
\* that is empty
Vocabulary == IF rev_call.revision_list = <<>> THEN DefaultRevisions ELSE rev_call.revision_list
\* the strings of one or two digits
NumberTokens == UNION { [1..n -> { Digits[d] : d \in DOMAIN Digits }] : n \in 1..2 }
\* the file name is base_pattern, "_", a number or FINAL, and the extension,
\* the case of the letters left aside
HasShape(name) ==
    \E token \in NumberTokens \cup {FINAL} :
        Upper(name) = Upper(FileName(rev_call.base_pattern, token, rev_call.extension))

\* C18: whenever the scan contains FINAL, find_next_revision returns "FINAL",
\* whatever numeric revisions are also found and whatever the vocabulary is.
C18_FinalIsSticky == (Scanned /\ InList(FINAL, Found)) => rev_ret = FINAL

C18_Witness ==
    /\ Scanned
    /\ InList(FINAL, Found) /\ InList(<<"2">>, Found) /\ Len(Found) = 2
    /\ Head(Found) = FINAL
    /\ ~InList(FINAL, Vocabulary) /\ ~InList(<<"3">>, Vocabulary)
    /\ rev_ret = FINAL

\* the greatest of a non-empty finite set of numbers
Greatest(S) == CHOOSE m \in S : \A n \in S : n <= m
\* the greatest integer among the found tokens
MaxFound == Greatest({ ParseInt(Found[k]) : k \in DOMAIN Found })

NoMatch ==
    \/ rev_call.folder.path = ""
    \/ rev_call.folder.kind # "dir"
    \/ rev_call.folder.listdir_error # "none"
    \/ rev_call.base_pattern = <<>>
    \/ \A k \in DOMAIN rev_call.folder.listing : ~HasShape(rev_call.folder.listing[k])

Sanitized == util_call.pc = "done" /\ util_call.fn = "sanitize_filename"

\* C21: for every file name and every replacement, the string sanitize_filename
\* returns holds none of the characters < > : " / \ | ? * and no control character.
C21_NoForbiddenChars ==
    Sanitized => \A k \in DOMAIN util_ret : ~IsInvalidChar(util_ret[k])

\* C22 as claimed: sanitize_filename returns a non-empty string for every
\* file name, the empty one included.
C22_NeverEmpty == Sanitized => util_ret # <<>>

\* C22 (amended): sanitize_filename returns a non-empty string for every
\* non-empty file name, "unnamed" when nothing is left of it, and the empty
\* string for the empty file name.
C22_EmptyOnlyForEmpty ==
    Sanitized =>
        /\ util_ret = <<>> <=> util_call.filename = <<>>
        /\ (util_call.filename # <<>>
              /\ \A k \in DOMAIN util_call.filename :
                    \/ util_call.filename[k] \in {" ", "."}
                    \/ IsInvalidChar(util_call.filename[k]) /\ util_call.replacement = <<>>)
              => util_ret = Unnamed

C22_Witness ==
    /\ Sanitized
    /\ util_call.filename = <<" ", "*", ".">>
    /\ util_call.replacement = <<>>
    /\ util_ret = Unnamed

\* the name holds no forbidden and no control character
CleanName(name) == \A k \in DOMAIN name : ~IsInvalidChar(name[k])
\* the text before the last '.' of the name is, in some case of its letters, a
\* reserved device name
ReservedStem(name) ==
    \E reserved \in WINDOWS_RESERVED :
        Upper(SubSeq(name, 1, IF LastDot(name) = 0 THEN Len(name) ELSE LastDot(name) - 1)) = reserved
\* the name begins or ends with a space or a dot
EdgeSpaceOrDot(name) == name # <<>> /\ (name[1] \in {" ", "."} \/ name[Len(name)] \in {" ", "."})

\* C23 as claimed: sanitize_filename returns unchanged every name without
\* forbidden or control characters whose stem is not a reserved device name
\* and whose length is at most 200.
C23_IdentityOnCleanNames ==
    (Sanitized /\ CleanName(util_call.filename) /\ ~ReservedStem(util_call.filename)
               /\ Len(util_call.filename) <= 200)
        => util_ret = util_call.filename

\* C23 (amended): sanitize_filename returns unchanged every such name that
\* neither begins nor ends with a space or a dot.
C23_IdentityOnTrimmedNames ==
    (Sanitized /\ CleanName(util_call.filename) /\ ~ReservedStem(util_call.filename)
               /\ Len(util_call.filename) <= 200 /\ ~EdgeSpaceOrDot(util_call.filename))
        => util_ret = util_call.filename

C23_Witness ==
    /\ Sanitized
    /\ util_call.filename = <<"L", "P", "T", "1">> \o <<".", "t", ".", "t">>
    /\ util_ret = util_call.filename

\* the name sanitize_filename has before it limits the length: invalid
\* characters replaced, spaces and dots stripped, reserved names prefixed
CleanedName == Cleaned(util_call.filename, util_call.replacement)
\* the text after the last '.' of the name
ExtensionOf(name) == SubSeq(name, LastDot(name) + 1, Len(name))
\* the string ends with the suffix
EndsWith(str, suffix) ==
    Len(suffix) <= Len(str) /\ SubSeq(str, Len(str) - Len(suffix) + 1, Len(str)) = suffix

\* C24: for every file name, the string sanitize_filename returns has at most
\* 200 characters, and when the name it shortens has an extension the result
\* ends with '.' and that whole extension.
C24_LengthClamped ==
    (Sanitized /\ util_call.filename # <<>>) =>
        /\ Len(util_ret) <= 200
        /\ LastDot(CleanedName) # 0 => EndsWith(util_ret, <<".">> \o ExtensionOf(CleanedName))

\* JobFolderParser.parse has returned
Parsed == util_call.pc = "done" /\ util_call.fn = "parse"

\* C25: for every folder name <digits>_<A>_<B>_<SKU> x <N>_(PO), the SKU any
\* text of letters (x and X too), digits and '-', the PO in parentheses or in
\* square brackets, parse returns job_number = digits, customer = A,
\* company = B, sku = SKU, quantity = N and po_number = PO.
C25_FullFormatRecovered ==
    (Parsed /\ util_call.form = "full") =>
        /\ util_ret.job_number = util_call.parts.digits
        /\ util_ret.customer = util_call.parts.a
        /\ util_ret.company = util_call.parts.b
        /\ util_ret.sku = util_call.parts.sku
        /\ util_ret.quantity = util_call.parts.n
        /\ util_ret.po_number = util_call.parts.po

\* the string without the characters of chars at its two ends
Trimmed(str, chars) ==
    LET kept == { k \in DOMAIN str : str[k] \notin chars }
    IN IF kept = {} THEN <<>>
       ELSE SubSeq(str, CHOOSE i \in kept : \A k \in kept : i <= k,
                        CHOOSE j \in kept : \A k \in kept : k <= j)
\* the text before the first '_' of the string
FirstToken(str) ==
    IF \E k \in DOMAIN str : str[k] = "_"
    THEN SubSeq(str, 1, (CHOOSE k \in DOMAIN str : str[k] = "_" /\ \A m \in 1..(k - 1) : str[m] # "_") - 1)
    ELSE str
StartsWithDigit(str) == str # <<>> /\ IsDigit(str[1])
\* the name without its trailing PO group
WithoutPo(name) ==
    IF PoMatchStart(name) # 0 THEN SubSeq(name, 1, PoMatchStart(name) - 1) ELSE name
\* the name without the whitespace at its ends, and when it ends with a PO
\* group without that group and without the '_', '-' and spaces at the ends of
\* what is left
WorkingName(name) ==
    LET stripped == Trimmed(name, Whitespace)
    IN IF PoMatchStart(stripped) # 0 THEN Trimmed(WithoutPo(stripped), Separators) ELSE stripped

Composed == util_call.pc = "done" /\ util_call.fn = "generate_filename"

\* the last component of a path, by position: the suffix without '/' that
\* starts the path or follows a '/'
LastComponent(p) ==
    CHOOSE q \in { SubSeq(p, k, Len(p)) : k \in 1..(Len(p) + 1) } :
        /\ \A k \in DOMAIN q : q[k] # "/"
        /\ Len(q) = Len(p) \/ p[Len(p) - Len(q)] = "/"

\* the extension of a path, by position: the suffix of the last component
\* that starts with its only '.', when a character other than '.' precedes it
\* in the component; empty otherwise
ExtensionOfPath(p) ==
    LET name == LastComponent(p)
        Suffixes == { SubSeq(name, k, Len(name)) : k \in 1..Len(name) }
        IsExt(e) == /\ e[1] = "."
                    /\ \A k \in 2..Len(e) : e[k] # "."
                    /\ \E k \in 1..(Len(name) - Len(e)) : name[k] # "."
    IN IF \E e \in Suffixes : IsExt(e) THEN CHOOSE e \in Suffixes : IsExt(e) ELSE <<>>

\* the five fields of the call in the order of the convention, the artwork
\* reference in parentheses
ConventionParts ==
    LET San(x) == SanitizeFilename(x, <<"_">>)
    IN << [given |-> util_call.job_number, part |-> San(util_call.job_number)],
          [given |-> util_call.sku, part |-> San(util_call.sku)],
          [given |-> util_call.artwork_ref,
           part |-> <<"(">> \o San(util_call.artwork_ref) \o <<")">>],
          [given |-> util_call.purpose, part |-> San(util_call.purpose)],
          [given |-> util_call.revision, part |-> San(util_call.revision)] >>

IsGiven(field) == field.given # <<>>

\* C27: generate_filename never returns an empty name: with all five fields
\* empty it returns the last component of the path as it is; otherwise it
\* returns the sanitized parts of the fields that are given, each non-empty, in
\* the order job number, sku, parenthesised artwork reference, purpose,
\* revision, with one '_' between neighbours, then the lower-cased extension.
C27_ComposedName ==
    Composed =>
        LET given == SelectSeq(ConventionParts, IsGiven)
            ext == ExtensionOfPath(util_call.original_path)
            Offset(k) == Len(Flatten([m \in 1..(k - 1) |-> given[m].part])) + (k - 1)
        IN /\ util_ret # <<>>
           /\ given = <<>> => util_ret = LastComponent(util_call.original_path)
           /\ given # <<>> =>
                /\ \A k \in DOMAIN given :
                      /\ given[k].part # <<>>
                      /\ SubSeq(util_ret, Offset(k) + 1, Offset(k) + Len(given[k].part))
                            = given[k].part
                      /\ k > 1 => util_ret[Offset(k)] = "_"
                /\ Len(util_ret) = Offset(Len(given) + 1) - 1 + Len(ext)
                /\ \A k \in DOMAIN ext :
                      LET c == util_ret[Len(util_ret) - Len(ext) + k]
                      IN /\ UpperChar(c) = UpperChar(ext[k])
                         /\ \A m \in DOMAIN UpperCase : c # UpperCase[m]

\* a call without sku and purpose on a path with an upper-case extension
\* gives "1_(_)_1.ps"
C27_Witness ==
    /\ Composed
    /\ util_call.original_path = <<"a", ".", "P", "S">>
    /\ util_call.job_number = <<"1">>
    /\ util_call.sku = <<>>
    /\ util_call.artwork_ref = <<"*">>
    /\ util_call.purpose = <<>>
    /\ util_call.revision = <<"1">>
    /\ util_ret = <<"1", "_", "(", "_", ")", "_", "1", ".", "p", "s">>

\* a later successful record's new_path is the path an earlier successful
\* record moved its file away from
Chained(session) ==
    \E i, j \in DOMAIN session.records :
        /\ i < j
        /\ session.records[i].success /\ session.records[j].success
        /\ session.records[j].new_path = session.records[i].original_path

\* the undo() called now and the redo() called after it, no move failing
UndoThenRedo ==
    LET undone == UndoCall(fs, undo_stack, redo_stack, NoFault)
    IN [undone |-> undone,
        redone |-> RedoCall(undone.fs, undone.undo_stack, undone.redo_stack, NoFault)]

\* every successful record's original path holds after the undo() what it
\* held before the batch, and the redo() gives back what the batch had left
RoundTrip(session) ==
    /\ \A i \in Successes(session) :
          LET p == session.records[i].original_path
          IN /\ Exists(UndoThenRedo.undone.fs, p) <=> Exists(before.fs, p)
             /\ Exists(before.fs, p) => UndoThenRedo.undone.fs[p] = before.fs[p]
    /\ UndoThenRedo.redone.fs = fs
    /\ UndoThenRedo.redone.undo_stack = undo_stack
    /\ UndoThenRedo.redone.redo_stack = redo_stack

\* the last call removed no file
NothingDeleted ==
    /\ Contents(fs) = Contents(before.fs)
    /\ Cardinality(DOMAIN fs) = Cardinality(DOMAIN before.fs)

\* C28 as claimed: after a batch in which a later record took the path an
\* earlier record had moved its file away from, undo() leaves at every
\* record's original path what was there before the batch and the redo()
\* after it gives the filesystem and the stacks the batch had left.
C28_ChainedBatchRoundTrip == (Recorded /\ Chained(ret)) => RoundTrip(ret)

\* C28 (amended): undo() goes through the successful records last to first
\* and redo() first to last: after a batch that removed no file and in which
\* a later record took the path an earlier record had moved its file away
\* from, undo(), no move failing, leaves at every record's original path what
\* was there before the batch, each moved file back where it came from with
\* its own content, and the redo() after it gives the filesystem and the
\* stacks the batch had left.
C28_ChainedRoundTripUnlessDeleted ==
    /\ (Recorded /\ Chained(ret) /\ NothingDeleted) =>
          /\ RoundTrip(ret)
          /\ UndoThenRedo.undone.ret[3] = success_count(ret)
          /\ UndoThenRedo.redone.ret[3] = success_count(ret)
    /\ (UndoAfterRename /\ Chained(Top(redo_stack))) =>
          LET session == Top(redo_stack)
              moved == history[session.obj].moved
          IN (\A i \in Successes(session) : moved[i] \in Contents(before.fs)) =>
                \A i \in Successes(session) :
                   (\A k \in 1..(i - 1) :
                       session.records[k].success =>
                          session.records[k].new_path # session.records[i].original_path) =>
                      /\ Exists(fs, session.records[i].original_path)
                      /\ fs[session.records[i].original_path] = moved[i]

\* the batch [D/a -> b, S/x -> a] executed, undone and redone: D/a holds the
\* second file again and D/b the first
C28_Witness ==
    /\ IsRedo
    /\ call.fault = NoFault
    /\ Len(undo_stack) = 1
    /\ LET session == Top(undo_stack)
       IN /\ Len(session.records) = 2
          /\ Chained(session)
          /\ session.records[1].original_path = DstA
          /\ session.records[1].new_path = Join("D", NameB)
          /\ session.records[2].original_path = SrcX
          /\ session.records[2].new_path = DstA
    /\ Exists(before.fs, DstA) /\ before.fs[DstA] = InitialFiles[DstA]
    /\ Exists(before.fs, SrcX) /\ before.fs[SrcX] = InitialFiles[SrcX]
    /\ Exists(fs, Join("D", NameB)) /\ fs[Join("D", NameB)] = InitialFiles[DstA]
    /\ Exists(fs, DstA) /\ fs[DstA] = InitialFiles[SrcX]
    /\ ~Exists(fs, SrcX)
    /\ ret[3] = 2

\* where the last undo() or redo() pushed the session it popped
Pushed == IF IsUndo THEN Top(redo_stack) ELSE Top(undo_stack)

\* the last call changed what path p holds
Touched(p) ==
    \/ Exists(fs, p) # Exists(before.fs, p)
    \/ Exists(fs, p) /\ Exists(before.fs, p) /\ fs[p] # before.fs[p]

PathsOf(record) == { record.original_path, record.new_path }

\* C29 as claimed: undo() and redo() change nothing at any path a failed record
\* of the session names, and push the session as they popped it.
C29_FailedPathsUntouched ==
    Popped # <<>> =>
        /\ \A i \in DOMAIN Popped[1].records :
              ~Popped[1].records[i].success =>
                 \A p \in PathsOf(Popped[1].records[i]) : ~Touched(p)
        /\ Pushed = Popped[1]

\* C29 (amended): undo() and redo() change nothing at a path a failed record
\* of the session names unless a successful record of the session names that
\* path too, and push the session as they popped it.
C29_FailedOnlyPathsUntouched ==
    Popped # <<>> =>
        /\ \A i \in DOMAIN Popped[1].records :
              ~Popped[1].records[i].success =>
                 \A p \in PathsOf(Popped[1].records[i]) \ PoppedPaths : ~Touched(p)
        /\ Pushed = Popped[1]

\* skip mode, D/a.psd present: S/x -> a is skipped, S/y -> b is moved; the undo
\* moves D/b back to S/y and leaves D/a and S/x as they were
C29_Witness ==
    /\ IsUndo
    /\ Popped # <<>>
    /\ Len(Popped[1].records) = 2
    /\ ~Popped[1].records[1].success
    /\ Popped[1].records[1].original_path = SrcX /\ Popped[1].records[1].new_path = DstA
    /\ Popped[1].records[2].success
    /\ Popped[1].records[2].original_path = SrcY /\ Popped[1].records[2].new_path = Join("D", NameB)
    /\ ret[3] = 1
    /\ Touched(SrcY) /\ Touched(Join("D", NameB))
    /\ Exists(fs, DstA) /\ fs[DstA] = InitialFiles[DstA]
    /\ Exists(fs, SrcX) /\ fs[SrcX] = InitialFiles[SrcX]

\* C30: in the skip and increment modes, one call at a time and nothing else
\* changing the filesystem, every rename_files, undo and redo leaves the
\* collection of file contents as it was: no file is deleted or overwritten.
C30_ContentsPreserved ==
    call.op # "init" =>
        /\ Contents(fs) = Contents(before.fs)
        /\ Cardinality(DOMAIN fs) = Cardinality(DOMAIN before.fs)

\* the filesystem rename_files had reached when it had processed the first n
\* files of the last batch
AfterFiles(n) ==
    RenameLoop(before.fs, SubSeq(call.files, 1, n), 1, call.dest_folder, call.duplicate_mode,
               call.fault).fs

\* two filesystems hold the same at path p
SameAt(f, g, p) ==
    /\ Exists(f, p) <=> Exists(g, p)
    /\ Exists(f, p) => f[p] = g[p]

\* C31: in every duplicate mode, a file whose record has success=false has
\* changed nothing: its original path and its destination path hold after the
\* file was processed what they held before.
C31_FailedFileChangesNothing ==
    IsRename =>
        \A i \in DOMAIN ret.records :
            ~ret.records[i].success =>
                \A p \in PathsOf(ret.records[i]) : SameAt(AfterFiles(i - 1), AfterFiles(i), p)

\* both batches have run to their end
RaceOver == wpc = "done" /\ upc = "done"

\* C32: in skip mode, two batches on the same service at once whose files go
\* (two different files) go to the same destination path never overwrite a
\* file placed there: every file is still somewhere, at most one of the two
\* records has succeeded, and the other batch's source file is still at its
\* original path.
C32_SkipNeverOverwrites ==
    RaceOver =>
        /\ Contents(fs) = Contents(before.fs)
        /\ \A i \in DOMAIN w.records, j \in DOMAIN u.records :
              (/\ w.records[i].new_path = u.records[j].new_path
               /\ w.records[i].original_path # u.records[j].original_path) =>
                 /\ ~(w.records[i].success /\ u.records[j].success)
                 /\ (w.records[i].success /\ Exists(before.fs, u.records[j].original_path)) =>
                       Exists(fs, u.records[j].original_path)
                 /\ (u.records[j].success /\ Exists(before.fs, w.records[i].original_path)) =>
                       Exists(fs, w.records[i].original_path)

\* the sessions of both stacks, the undo stack first
BothStacks == undo_stack \o redo_stack

\* C33: after any sequence of rename_files (record_session), undo, redo and
\* clear_history, the two stacks together hold at most max_history sessions
\* and no session is in them twice.
C33_StacksBounded ==
    /\ Len(undo_stack) + Len(redo_stack) <= max_history
    /\ \A i, j \in DOMAIN BothStacks : BothStacks[i].obj = BothStacks[j].obj => i = j

\* more sessions recorded than max_history, the oldest dropped, and after an
\* undo both stacks hold a session
C33_Witness ==
    /\ created > max_history
    /\ IsUndo
    /\ undo_stack # <<>> /\ redo_stack # <<>>
    /\ Len(undo_stack) + Len(redo_stack) = max_history

\* the last call was a rename_files into a folder that could not be created
IntoUnreachable == IsRename /\ call.dest_folder = UnreachableFolder

\* C34: rename_files into a destination directory that cannot be created
\* returns a session whose records all have success=false and an error that is
\* not the one of a missing source when the source is there; every file is
\* where it was and nothing goes to the ledger.
C34_UnreachableReported ==
    IntoUnreachable =>
        /\ \A i \in DOMAIN ret.records :
              /\ ~ret.records[i].success
              /\ Exists(before.fs, ret.records[i].original_path) =>
                    ret.records[i].error # "Source file not found"
        /\ fs = before.fs
        /\ undo_stack = before.undo_stack /\ redo_stack = before.redo_stack

\* a.psd and every suffixed candidate up to a_n.psd exist in f
FullUpTo(f, base_path, n) ==
    Exists(f, base_path) /\ \A k \in 1..n : Exists(f, Candidate(base_path, k))

\* C35: in increment mode the probe tries the suffixes 1..9999 and no more: with
\* name_1 .. name_9998 taken and name_9999 free the file is moved to name_9999;
\* with name_1 .. name_9999 all taken the file's record fails, the filesystem is
\* as it was before that file, and the batch goes on to the next file.
C35_ProbeBounded ==
    (IsRename /\ call.duplicate_mode = "increment") =>
        /\ Len(ret.records) = Len(call.files)
        /\ \A i \in DOMAIN ret.records :
              \A pre \in { AfterFiles(i - 1) }, post \in { AfterFiles(i) } :
              LET src == call.files[i].path
                  base_path == Join(call.dest_folder, call.files[i].new_name)
                  last == Candidate(base_path, MaxAttempts)
              IN /\ (FullUpTo(pre, base_path, MaxAttempts - 1) /\ ~Exists(pre, last) /\ Exists(pre, src)) =>
                        /\ ret.records[i].success
                        /\ ret.records[i].new_path = last
                        /\ Exists(post, last) /\ post[last] = pre[src]
                        /\ ~Exists(post, src)
                 /\ FullUpTo(pre, base_path, MaxAttempts) =>
                        /\ ~ret.records[i].success
                        /\ post = pre

\* a batch whose first file took the last free suffix and whose second file
\* found every suffix taken
C35_Witness ==
    /\ IsRename /\ call.duplicate_mode = "increment"
    /\ Len(ret.records) = 2
    /\ FullUpTo(before.fs, DstA, MaxAttempts - 1) /\ ~Exists(before.fs, Candidate(DstA, MaxAttempts))
    /\ ret.records[1].success /\ ret.records[1].new_path = Candidate(DstA, MaxAttempts)
    /\ ~ret.records[2].success /\ Exists(fs, ret.records[2].original_path)
    /\ FullUpTo(fs, DstA, MaxAttempts)

\* the revision token of a file name of the shape base_<N|FINAL>extension, the
\* base compared letter by letter, token and extension in any letter case;
\* <<>> for any other name
ExactGroup(filename, base_pattern, extension) ==
    IF Len(filename) >= Len(base_pattern) /\ SubSeq(filename, 1, Len(base_pattern)) = base_pattern
    THEN MatchGroup(filename, base_pattern, extension)
    ELSE <<>>

\* a run of calls of find_next_revision with the default vocabulary
InRun == rev_call.pc \in {"call", "returned"} /\ "tokens" \in DOMAIN rev_call

\* C36: from a folder with no file of the shape base_<N|FINAL>extension, the
\* calls of find_next_revision, each followed by a file saved under the
\* returned token, return 1, 2, 3, 4, 5, FINAL and FINAL ever after; a numeric
\* token returned is the revision of no such file in the folder.
C36_TokensInOrder ==
    InRun =>
        /\ \A k \in DOMAIN rev_call.tokens :
              rev_call.tokens[k] = IF k <= Len(DefaultRevisions) THEN DefaultRevisions[k] ELSE FINAL
        /\ (rev_call.pc = "returned" /\ IsNumber(rev_ret)) =>
              \A e \in DOMAIN rev_call.folder.listing :
                 LET group == ExactGroup(rev_call.folder.listing[e], rev_call.base_pattern,
                                         rev_call.extension)
                 IN IsNumber(group) => ParseInt(group) # ParseInt(rev_ret)

\* the same of the runs that start on a folder in which no name has that shape
\* in whatever letter case the base is written
C36_TokensInOrderApart ==
    (InRun /\ \A e \in DOMAIN rev_call.folder.listing :
                 rev_call.folder.listing[e] \in StartNames =>
                    MatchGroup(rev_call.folder.listing[e], rev_call.base_pattern,
                               rev_call.extension) = <<>>)
        => C36_TokensInOrder

RECURSIVE ExactTokens(_, _, _)
\* the tokens, FINAL in capitals, of the names of a listing that have the shape
\* base_<N|FINAL>extension with the base as written, in listing order
ExactTokens(listing, base_pattern, extension) ==
    IF listing = <<>> THEN <<>>
    ELSE LET group == ExactGroup(Head(listing), base_pattern, extension)
             rest == ExactTokens(Tail(listing), base_pattern, extension)
         IN IF group # <<>> THEN <<Upper(group)>> \o rest ELSE rest

\* C37: the scan takes a revision token from the names base_<N|FINAL>extension
\* whose base is base_pattern letter for letter, metacharacters standing for
\* themselves, and from no other name: a name with the base in another letter
\* case gives no token.
C37_BaseMatchedExactly ==
    rev_call.pc = "scanned" =>
        rev_ret = ExactTokens(rev_call.folder.listing, rev_call.base_pattern, rev_call.extension)

\* the file name of the call with its invalid characters replaced and its
\* leading and trailing spaces and dots taken off
TrimmedName == Strip(Sub(util_call.replacement, util_call.filename))
IsReserved(str) == Upper(RSplit(str)[1]) \in WINDOWS_RESERVED

\* C38: when the trimmed name without its extension is a reserved device name
\* in any letter case, sanitize_filename returns the replacement followed by the
\* whole trimmed string, whatever the replacement is, and the stem of the result
\* is no reserved name.
C38_ReservedGetsReplacement ==
    (Sanitized /\ IsReserved(TrimmedName)) =>
        /\ util_ret = util_call.replacement \o TrimmedName
        /\ ~IsReserved(util_ret)

\* C39: the string sanitize_filename returns neither starts nor ends with a
\* space or a dot, whether or not the length limit has cut it, and sanitizing
\* it again gives the same string.
C39_TrimmedAndIdempotent ==
    Sanitized =>
        /\ util_ret # <<>> => /\ util_ret[1] \notin {" ", "."}
                              /\ util_ret[Len(util_ret)] \notin {" ", "."}
        /\ SanitizeFilename(util_ret, util_call.replacement) = util_ret

\* the call left the files and both stacks as they were
NothingChanged ==
    fs = before.fs /\ undo_stack = before.undo_stack /\ redo_stack = before.redo_stack

\* C40: undo() with nothing in the undo stack returns (False, "Nothing to undo", 0)
\* and redo() with nothing in the redo stack returns (False, "Nothing to redo", 0);
\* neither changes a stack or a file; can_undo() and can_redo() are true exactly
\* when their stack holds a session.
C40_EmptyStacksAnswered ==
    /\ (IsUndo /\ before.undo_stack = <<>>) =>
           ret = <<FALSE, <<"Nothing to undo">>, 0>> /\ NothingChanged
    /\ (IsRedo /\ before.redo_stack = <<>>) =>
           ret = <<FALSE, <<"Nothing to redo">>, 0>> /\ NothingChanged
    /\ CanUndo <=> undo_stack # <<>>
    /\ CanRedo <=> redo_stack # <<>>

\* an undo that found the undo stack empty while a session waits in the redo
\* stack and files exist
C40_Witness ==
    /\ IsUndo /\ before.undo_stack = <<>>
    /\ ret[1] = FALSE
    /\ CanRedo /\ ~CanUndo
    /\ fs # <<>>
====
